---- MODULE Spec2Model ----
(***************************************************************************)
(* Autocast: multi-provider stream aggregation (app.py, main.py,           *)
(* source_apis/xprime_source.py) and the Roku cast state machine           *)
(* (roku_caster.py), as one state machine.                                 *)
(*                                                                         *)
(* Strings the code inspects character by character (stream URLs, media    *)
(* types) are sequences of one-character strings; strings the code only    *)
(* copies or compares as a whole (names, statuses, titles) are strings.    *)
(* An Optional value is a sequence of length 0 (None) or 1.                *)
(***************************************************************************)
EXTENDS Integers, Sequences, FiniteSets, TLC

\* ------------------------------------------------------------------ bounds

\* stream_index of a request ranges over -MaxIndex .. MaxIndex
MaxIndex == 2

\* number of calls made to the providers when they are called directly
MaxCalls == 2

\* ------------------------------------------------------- program constants

\* wait_for_roku_ready(device, client, max_wait_time=30)
MaxWaitTime == 30

\* an HTTP call that ends in httpx.TimeoutException / ConnectError /
\* RequestError instead of a response (no status code)
TransportError == 0

None == <<>>
Some(x) == <<x>>

\* ------------------------------------------------------------ text helpers

HTTPS == <<"h", "t", "t", "p", "s", ":", "/", "/">>
HTTP_ == <<"h", "t", "t", "p", ":", "/", "/">>
EXAMPLE == <<"e", "x", "a", "m", "p", "l", "e", "-">>

\* str.startswith(prefix)
StartsWith(s, prefix) ==
    /\ Len(s) >= Len(prefix)
    /\ SubSeq(s, 1, Len(prefix)) = prefix

\* str.endswith(suffix)
EndsWith(s, suffix) ==
    /\ Len(s) >= Len(suffix)
    /\ SubSeq(s, Len(s) - Len(suffix) + 1, Len(s)) = suffix

\* the positions of character c in s
Positions(s, c) == {i \in 1..Len(s) : s[i] = c}

Min(S) == CHOOSE x \in S : \A y \in S : x <= y
Max(S) == CHOOSE x \in S : \A y \in S : x >= y

\* mutant: the query string is not removed
BeforeQuery_whole(url) == url

\* url.split("?")[0]
BeforeQuery(url) ==
    IF Positions(url, "?") = {} THEN url
    ELSE SubSeq(url, 1, Min(Positions(url, "?")) - 1)

\* str.lower() on the alphabet the model uses
LowerChar(c) ==
    CASE c = "M" -> "m"
      [] c = "K" -> "k"
      [] c = "V" -> "v"
      [] c = "P" -> "p"
      [] OTHER -> c

Lower(s) == [i \in 1..Len(s) |-> LowerChar(s[i])]

\* str.isalnum(): non-empty and every character a letter or a digit
AlnumChars ==
    {"a", "b", "c", "d", "e", "f", "g", "h", "i", "j", "k", "l", "m", "n", "o",
     "p", "q", "r", "s", "t", "u", "v", "w", "x", "y", "z",
     "0", "1", "2", "3", "4", "5", "6", "7", "8", "9",
     "M", "K", "V", "P"}

IsAlnum(s) == Len(s) > 0 /\ \A i \in 1..Len(s) : s[i] \in AlnumChars

\* path_part.split(".")[-1]
AfterLastDot(s) == SubSeq(s, Max(Positions(s, ".")) + 1, Len(s))

\* video_extensions, in the order the code tries them
video_extensions ==
    << <<"m", "p", "4">>, <<"m", "k", "v">>, <<"a", "v", "i">>,
       <<"m", "o", "v">>, <<"w", "m", "v">>, <<"f", "l", "v">>,
       <<"w", "e", "b", "m">>, <<"m", "3", "u", "8">> >>

MP4 == <<"m", "p", "4">>

\* mutant: any suffix after the last dot is taken, whatever its length and
\* its characters
get_media_type_from_url_any_suffix(url) ==
    LET path_part == Lower(BeforeQuery(url))
        hits == {k \in 1..Len(video_extensions) :
                    EndsWith(path_part, <<".">> \o video_extensions[k])}
    IN  IF hits # {} THEN video_extensions[Min(hits)]
        ELSE IF Positions(path_part, ".") # {}
             THEN AfterLastDot(path_part)
             ELSE MP4

\* XPrimeStreamAPI._get_media_type_from_url (XPrimePrimenetAPI's is a copy)
get_media_type_from_url(url) ==
    LET path_part == Lower(BeforeQuery(url))
        hits == {k \in 1..Len(video_extensions) :
                    EndsWith(path_part, <<".">> \o video_extensions[k])}
    IN  IF hits # {} THEN video_extensions[Min(hits)]
        ELSE IF Positions(path_part, ".") # {}
                /\ Len(AfterLastDot(path_part)) <= 4
                /\ IsAlnum(AfterLastDot(path_part))
             THEN AfterLastDot(path_part)
             ELSE MP4

\* --------------------------------------------------------------- datatypes

\* VideoRequest.check_title_or_imdb_id_present: `not values.get(...)` holds
\* for an absent (None) and for an empty value
\* mutant: only an absent value counts as missing, an empty one does not
Falsy_only_none(opt) == opt = None

Falsy(opt) == opt = None \/ opt = Some("")

VideoRequestValid(title, imdb_id) == ~(Falsy(title) /\ Falsy(imdb_id))

\* VideoRequest(title=..., imdb_id=..., destination_tv=...)
VideoRequest(title, imdb_id, destination_tv) ==
    [title |-> title, imdb_id |-> imdb_id, destination_tv |-> destination_tv]

\* The fields class VideoStream declares. source_api is not one of them.
VideoStreamFields == {"url", "media_type", "quality", "from_request"}

\* VideoStream(url=, media_type=, quality=, from_request=, source_api=):
\* a pydantic model keeps the declared fields and ignores any other keyword,
\* so the source_api the providers pass is not stored on the object.
VideoStream(url, media_type, quality, from_request, source_api) ==
    LET given == [url |-> url, media_type |-> media_type, quality |-> quality,
                  from_request |-> from_request, source_api |-> source_api]
    IN  [f \in VideoStreamFields |-> given[f]]

\* reading stream.<field> succeeds iff the object has the attribute
HasAttr(obj, field) == field \in DOMAIN obj

\* SearchResult / SearchResultInfo (the engine copies the fields one to one)
SearchResult(api_name, success, streams_found, message, status, error_details) ==
    [api_name |-> api_name, success |-> success, streams_found |-> streams_found,
     message |-> message, status |-> status, error_details |-> error_details]

\* VideoSources(sources=streams, search_results=search_results); raised marks
\* a call that ended in an exception instead of a return value
VideoSources(sources, results) ==
    [raised |-> FALSE, sources |-> sources, search_results |-> results]

Raised == [raised |-> TRUE, sources |-> <<>>, search_results |-> <<>>]

\* MediaMetadata as far as the core reads it
MediaMetadata(confirmed_title, tmdb_id) ==
    [confirmed_title |-> confirmed_title, tmdb_id |-> tmdb_id]

\* ---------------------------------------------------------------- providers

\* The concrete classes load_video_source_apis instantiates, in the order
\* dir(module) lists them (XPrimeStreamAPI itself needs base_url: skipped).
ProviderClasses == <<"XPrimeBackendAPI", "XPrimeMainAPI", "XPrimePrimenetAPI">>

\* the name property
ApiName(cls) ==
    CASE cls = "XPrimeBackendAPI" -> "XPrime (backend.xprime.tv) Movie Streamer"
      [] cls = "XPrimeMainAPI" -> "XPrime (xprime.tv) Movie Streamer"
      [] cls = "XPrimePrimenetAPI" -> "XPrime Primenet Movie Streamer"

preferred_qualities == <<"1080P", "720P", "480P", "360P">>

InPreferred(q) == \E k \in 1..Len(preferred_qualities) : preferred_qualities[k] = q

\* for quality in preferred_qualities: if quality in available_streams
RECURSIVE PreferredEntries(_, _)
PreferredEntries(available, k) ==
    IF k > Len(preferred_qualities) THEN <<>>
    ELSE SelectSeq(available, LAMBDA e : e.quality = preferred_qualities[k])
         \o PreferredEntries(available, k + 1)

\* for quality, url in available_streams.items(): if quality not in preferred
RemainingEntries(available) ==
    SelectSeq(available, LAMBDA e : ~InPreferred(e.quality))

\* mutant: the map is emitted in the order the upstream presented it
EmitOrder_as_presented(available) == available

\* the order in which the two loops visit the quality map
EmitOrder(available) == PreferredEntries(available, 1) \o RemainingEntries(available)

\* the entries before the first one whose URL is not a string (building a
\* VideoStream from it raises, which ends both loops)
RECURSIVE ValidPrefix(_)
ValidPrefix(entries) ==
    IF entries = <<>> \/ ~Head(entries).valid THEN <<>>
    ELSE <<Head(entries)>> \o ValidPrefix(Tail(entries))

\* mutant: every error status is reported under one name
HttpStatusName_generic(code) == "HTTP_ERROR"

\* status=f"HTTP_{e.response.status_code}"
HttpStatusName(code) ==
    CASE code = 404 -> "HTTP_404"
      [] code = 429 -> "HTTP_429"
      [] code = 500 -> "HTTP_500"
      [] OTHER -> "HTTP_other"

\* mutant: the upstream's own status is not passed on
api_status_unknown(up) == "unknown"

\* api_status = data.get("status", "unknown")
api_status(up) == IF up.status = None THEN "unknown" ELSE up.status[1]

\* XPrimeStreamAPI.search_streams on the upstream answer `up`
XPrimeStream_search_streams(cls, metadata, original_request, up) ==
    LET name == ApiName(cls)
        fail(message, status, details) ==
            <<SearchResult(name, FALSE, 0, message, status, details)>>
    IN  CASE up.kind = "transport" ->
               VideoSources(<<>>, fail("Request error", "REQUEST_ERROR", "exception text"))
          [] up.kind = "status" ->
               VideoSources(<<>>,
                   IF up.code = 429
                   THEN fail("Rate limited (HTTP 429). Try again in a few seconds",
                             HttpStatusName(up.code), "response, rate limiting note")
                   ELSE fail("HTTP error", HttpStatusName(up.code), "response"))
          [] up.kind = "undecodable" ->
               VideoSources(<<>>, fail("Unexpected error", "UNKNOWN_ERROR", "exception text"))
          [] up.kind = "json" ->
               IF up.status = Some("ok") /\ up.streams # <<>>
               THEN LET order == EmitOrder(up.streams)
                        built == ValidPrefix(order)
                        streams == [k \in 1..Len(built) |->
                                       VideoStream(built[k].url,
                                                   get_media_type_from_url(built[k].url),
                                                   built[k].quality, original_request, name)]
                    IN  IF Len(built) = Len(order)
                        THEN VideoSources(streams,
                                 <<SearchResult(name, TRUE, Len(streams),
                                                "Successfully found stream(s)", "ok", "none")>>)
                        ELSE VideoSources(streams,
                                 fail("Unexpected error", "UNKNOWN_ERROR", "exception text"))
               ELSE VideoSources(<<>>,
                        fail("No streams found",
                             api_status(up),
                             "API returned"))

\* mutant: the check for the TMDB id is lost
has_tmdb_id_always(metadata) == TRUE

\* mutant: only the id 0 counts as no id
has_tmdb_id_unless_zero(metadata) == metadata.tmdb_id # Some(0)

\* XPrimePrimenetAPI.search_streams: `if not metadata.tmdb_id` is false
\* (None and 0 are both falsy)
has_tmdb_id(metadata) ==
    ~(metadata.tmdb_id = None \/ metadata.tmdb_id = Some(0))

\* whether search_streams gets as far as `await self.client.get(...)`:
\* XPrimeStreamAPI always does, XPrimePrimenetAPI returns before it when the
\* TMDB id is missing
sends_request(cls, metadata) ==
    cls = "XPrimePrimenetAPI" => has_tmdb_id(metadata)

\* XPrimePrimenetAPI.search_streams on the upstream answer `up`
XPrimePrimenet_search_streams(cls, metadata, original_request, up) ==
    LET name == ApiName(cls)
        fail(message, status, details) ==
            <<SearchResult(name, FALSE, 0, message, status, details)>>
    IN  IF ~has_tmdb_id(metadata)
        THEN VideoSources(<<>>, fail("No TMDB ID available for primenet search",
                                     "NO_TMDB_ID", "none"))
        ELSE
        CASE up.kind = "transport" ->
               VideoSources(<<>>, fail("Request error", "REQUEST_ERROR", "exception text"))
          [] up.kind = "status" ->
               VideoSources(<<>>,
                   IF up.code = 404
                   THEN fail("Movie not found (HTTP 404)", HttpStatusName(up.code), "response")
                   ELSE IF up.code = 429
                   THEN fail("Rate limited (HTTP 429). Try again in a few seconds",
                             HttpStatusName(up.code), "response, rate limiting note")
                   ELSE fail("HTTP error", HttpStatusName(up.code), "response"))
          [] up.kind = "undecodable" ->
               VideoSources(<<>>, fail("Unexpected error", "UNKNOWN_ERROR", "exception text"))
          [] up.kind = "json" ->
               IF up.streams # <<>>
               THEN IF up.streams[1].valid
                    THEN VideoSources(
                             <<VideoStream(up.streams[1].url,
                                           get_media_type_from_url(up.streams[1].url),
                                           "HD", original_request, name)>>,
                             <<SearchResult(name, TRUE, 1, "Successfully found stream",
                                            "ok", "none")>>)
                    ELSE VideoSources(<<>>, fail("Unexpected error", "UNKNOWN_ERROR",
                                                 "exception text"))
               ELSE VideoSources(<<>>, fail("No stream URL found", "NO_URL_FOUND",
                                            "API returned"))

\* mutant: a transport failure is not caught and leaves search_streams
search_streams_unguarded(cls, metadata, original_request, up) ==
    IF up.kind \in {"raise", "transport"} THEN Raised
    ELSE IF cls = "XPrimePrimenetAPI"
         THEN XPrimePrimenet_search_streams(cls, metadata, original_request, up)
         ELSE XPrimeStream_search_streams(cls, metadata, original_request, up)

\* api_instance.search_streams(metadata, video_req): dispatch on the class.
\* kind "raise" is an exception that escapes search_streams (the interface
\* VideoSourceAPI.search_streams does not exclude it; the callers catch it).
search_streams(cls, metadata, original_request, up) ==
    IF up.kind = "raise" THEN Raised
    ELSE IF cls = "XPrimePrimenetAPI"
         THEN XPrimePrimenet_search_streams(cls, metadata, original_request, up)
         ELSE XPrimeStream_search_streams(cls, metadata, original_request, up)

\* ------------------------------------------------------- the environment

\* app_config.roku_devices, loaded once from config.yaml
roku_devices == << [name |-> "Living Room", ip_address |-> "10.0.0.16"] >>

\* what a request may name as destination_tv
DestinationChoices == {"Living Room", "10.0.0.16", "Garage"}

\* title / imdb_id of a request: absent, empty or given
RequestChoices ==
    { [title |-> None, imdb_id |-> None],
      [title |-> Some(""), imdb_id |-> None],
      [title |-> None, imdb_id |-> Some("")],
      [title |-> Some("inception"), imdb_id |-> None] }

IndexChoices == (0 - MaxIndex)..MaxIndex

\* get_media_metadata: None (not found) or a record that carries the TMDB id
MetadataChoices == {None, Some(MediaMetadata("Inception", Some(27205)))}

CDN == HTTPS \o <<"c", "d", "n", "/">>

\* the host letter that tells one provider's upstream data from another's
HostChar(cls) ==
    CASE cls = "XPrimeBackendAPI" -> "b"
      [] cls = "XPrimeMainAPI" -> "m"
      [] cls = "XPrimePrimenetAPI" -> "p"

Entry(quality, url) == [quality |-> quality, url |-> url, valid |-> TRUE]

\* a quality map the upstream presents with 720P before 1080P
TwoQualities(cls) ==
    << Entry("720P", CDN \o <<HostChar(cls), "7", ".", "m", "p", "4">>),
       Entry("1080P", CDN \o <<HostChar(cls), "1", ".", "m", "k", "v", "?", "t">>) >>

\* the upstream answers one provider call may get
UpstreamChoices(cls) ==
    IF cls = "XPrimePrimenetAPI"
    THEN { [kind |-> "raise"],
           [kind |-> "json", status |-> None, streams |-> <<>>],
           [kind |-> "json", status |-> None,
            streams |-> <<Entry("", CDN \o <<"p", ".", "m", "3", "u", "8">>)>>],
           [kind |-> "json", status |-> None,
            streams |-> <<Entry("", HTTPS \o EXAMPLE \o <<"p", "/", "v">>)>>],
           [kind |-> "json", status |-> None,
            streams |-> <<Entry("", HTTP_ \o EXAMPLE \o <<"p", "/", "w">>)>>] }
    ELSE IF cls = "XPrimeMainAPI"
    THEN { [kind |-> "transport"],
           [kind |-> "json", status |-> Some("ok"), streams |-> TwoQualities(cls)] }
    ELSE { [kind |-> "raise"],
           [kind |-> "json", status |-> Some("ok"), streams |-> TwoQualities(cls)] }

\* what the device may answer to a status query, a wake command, a launch
StatusAnswers == {200, 503, TransportError}
WakeAnswers == {200, 202, 500, TransportError}
LaunchAnswers == {200, 204, 500, TransportError}

\* ------------------------------------------------------------------- state

VARIABLES
    video_source_apis,  \* the provider registry (classes, in iteration order)
    path,               \* "search", "cast", "cast_background" or "cli"
    pc,                 \* where the request's flow of control stands
    video_req,          \* the VideoRequest built from the request
    stream_index,       \* request.stream_index
    target_device,      \* Optional RokuDevice
    metadata,           \* Optional MediaMetadata
    api_idx,            \* position of the provider loop (1-based)
    returned,           \* history: per invoked provider, what the call gave
    all_streams,        \* the aggregated candidates
    search_results,     \* the aggregated per-provider outcomes
    selected_stream,    \* Optional: the stream handed to cast_to_roku
    response,           \* what the caller of the HTTP endpoint receives
    outcome,            \* how the operation ended
    cast                \* the cast_to_roku invocations, by invocation id

vars == <<video_source_apis, path, pc, video_req, stream_index, target_device,
          metadata, api_idx, returned, all_streams, search_results,
          selected_stream, response, outcome, cast>>

flow_vars == <<video_source_apis, path, pc, video_req, stream_index,
               target_device, metadata, api_idx, returned, all_streams,
               search_results, selected_stream, response, outcome>>

\* a request makes at most one call of cast_to_roku: invocation 1
Casts == {1}

\* the invocations of cast_to_roku on one device that are looked at together
Attempts == {1, 2}

NoResponse == [kind |-> "none"]

\* a cast_to_roku invocation that has not been made
IdleCast ==
    [pc |-> "idle", stream |-> None, media_metadata |-> None,
     display_title |-> "", is_responsive |-> FALSE, attempt |-> 0,
     last |-> [call |-> "none", answer |-> 0],
     n_check |-> 0, n_wake |-> 0, n_sleep |-> 0, n_poll |-> 0, n_launch |-> 0,
     result |-> None, cancelled |-> FALSE]

\* load_video_source_apis: the classes whose constructor takes exactly
\* (config, client), in dir() order; a class or module that fails to load is
\* skipped, so the registry is a sub-list of ProviderClasses. The model takes
\* the leading sub-lists, one of every size 0 .. 3.
RegistryChoices ==
    { SubSeq(ProviderClasses, 1, n) : n \in 0..Len(ProviderClasses) }

Init ==
    /\ video_source_apis \in RegistryChoices
    /\ path = "none"
    /\ pc = "idle"
    /\ video_req = None
    /\ stream_index = 0
    /\ target_device = None
    /\ metadata = None
    /\ api_idx = 1
    /\ returned = <<>>
    /\ all_streams = <<>>
    /\ search_results = <<>>
    /\ selected_stream = None
    /\ response = NoResponse
    /\ outcome = "none"
    /\ cast = [a \in Casts |-> IdleCast]

\* ------------------------------------------------- request reception

\* mutant: a destination that matches no device falls back to the first
\* configured device
FindDevice_default(destination_tv) ==
    LET hits == {k \in 1..Len(roku_devices) :
                    \/ roku_devices[k].name = destination_tv
                    \/ roku_devices[k].ip_address = destination_tv}
    IN  IF hits = {} THEN Some(roku_devices[1]) ELSE Some(roku_devices[Min(hits)])

\* for device in app_config.roku_devices: first one whose name or address
\* equals destination_tv
FindDevice(destination_tv) ==
    LET hits == {k \in 1..Len(roku_devices) :
                    \/ roku_devices[k].name = destination_tv
                    \/ roku_devices[k].ip_address = destination_tv}
    IN  IF hits = {} THEN None ELSE Some(roku_devices[Min(hits)])

HTTPException(status_code) == [kind |-> "HTTPException", status_code |-> status_code]

Finish(resp, how) ==
    /\ pc' = "done"
    /\ response' = resp
    /\ outcome' = how

\* search_movie up to its first await
ReceiveSearch(title, imdb_id) ==
    /\ pc = "idle"
    /\ path' = "search"
    /\ stream_index' = 0
    /\ target_device' = None
    /\ IF Falsy(title) /\ Falsy(imdb_id)
       THEN /\ Finish(HTTPException(400), "rejected")
            /\ video_req' = None
       ELSE /\ video_req' = Some(VideoRequest(title, imdb_id, "api_search"))
            /\ pc' = "lookup"
            /\ UNCHANGED <<response, outcome>>
    /\ UNCHANGED <<video_source_apis, metadata, api_idx, returned, all_streams,
                   search_results, selected_stream, cast>>

\* cast_movie up to its first await
ReceiveCast(title, imdb_id, destination_tv, index) ==
    /\ pc = "idle"
    /\ path' = "cast"
    /\ stream_index' = index
    /\ IF Falsy(title) /\ Falsy(imdb_id)
       THEN /\ Finish(HTTPException(400), "rejected")
            /\ UNCHANGED <<video_req, target_device>>
       ELSE IF FindDevice(destination_tv) = None
       THEN /\ Finish(HTTPException(404), "rejected")
            /\ UNCHANGED <<video_req, target_device>>
       ELSE /\ target_device' = FindDevice(destination_tv)
            /\ video_req' = Some(VideoRequest(title, imdb_id,
                                              FindDevice(destination_tv)[1].name))
            /\ pc' = "lookup"
            /\ UNCHANGED <<response, outcome>>
    /\ UNCHANGED <<video_source_apis, metadata, api_idx, returned, all_streams,
                   search_results, selected_stream, cast>>

\* cast_movie_background: the endpoint answers at once and the task
\* perform_background_cast runs up to its first await
ReceiveCastBackground(title, imdb_id, destination_tv, index) ==
    /\ pc = "idle"
    /\ path' = "cast_background"
    /\ stream_index' = index
    /\ IF Falsy(title) /\ Falsy(imdb_id)
       THEN /\ Finish(HTTPException(400), "rejected")
            /\ UNCHANGED <<video_req, target_device>>
       ELSE IF FindDevice(destination_tv) = None
       THEN /\ Finish(HTTPException(404), "rejected")
            /\ UNCHANGED <<video_req, target_device>>
       ELSE /\ target_device' = FindDevice(destination_tv)
            /\ video_req' = Some(VideoRequest(title, imdb_id,
                                              FindDevice(destination_tv)[1].name))
            /\ response' = [kind |-> "BackgroundStarted", success |-> TRUE]
            /\ pc' = "lookup"
            /\ UNCHANGED outcome
    /\ UNCHANGED <<video_source_apis, metadata, api_idx, returned, all_streams,
                   search_results, selected_stream, cast>>

\* main_workflow up to its first network await: --tv names a device or the
\* user picks one of the configured devices at the prompt
ReceiveCli(title, imdb_id, destination_tv) ==
    /\ pc = "idle"
    /\ path' = "cli"
    /\ stream_index' = 0
    /\ UNCHANGED response
    /\ IF Falsy(title) /\ Falsy(imdb_id)
       THEN /\ pc' = "done"
            /\ outcome' = "rejected"
            /\ UNCHANGED <<video_req, target_device>>
       ELSE /\ \E d \in (IF FindDevice(destination_tv) = None
                         THEN {Some(roku_devices[k]) : k \in 1..Len(roku_devices)}
                         ELSE {FindDevice(destination_tv)}) :
                 /\ target_device' = d
                 /\ video_req' = Some(VideoRequest(title, imdb_id, d[1].name))
            /\ pc' = "lookup"
            /\ UNCHANGED outcome
    /\ UNCHANGED <<video_source_apis, metadata, api_idx, returned, all_streams,
                   search_results, selected_stream, cast>>

\* mutant: a lookup that found nothing is reported, and the operation goes
\* on to the provider search with metadata made up from nothing
Lookup_goes_on(m) ==
    /\ pc = "lookup"
    /\ metadata' = IF m = None THEN Some(MediaMetadata("", None)) ELSE m
    /\ pc' = "searching"
    /\ outcome' = IF m = None THEN "not_found" ELSE outcome
    /\ UNCHANGED <<video_source_apis, path, video_req, stream_index,
                   target_device, api_idx, returned, all_streams, search_results,
                   selected_stream, response, cast>>

\* await get_media_metadata(...) and the check that follows it
Lookup(m) ==
    /\ pc = "lookup"
    /\ metadata' = m
    /\ IF m = None
       THEN CASE path = "cli" ->
                   /\ pc' = "done" /\ outcome' = "not_found" /\ UNCHANGED response
              [] path = "cast_background" ->
                   /\ pc' = "done" /\ outcome' = "not_found" /\ UNCHANGED response
              [] OTHER -> Finish(HTTPException(404), "not_found")
       ELSE IF path = "cli" /\ video_source_apis = <<>>
       THEN /\ pc' = "done" /\ outcome' = "no_apis" /\ UNCHANGED response
       ELSE /\ pc' = "searching" /\ UNCHANGED <<response, outcome>>
    /\ UNCHANGED <<video_source_apis, path, video_req, stream_index,
                   target_device, api_idx, returned, all_streams, search_results,
                   selected_stream, cast>>

\* ------------------------------------------------------ the provider loop

StreamInfo(url, media_type, quality, source_api) ==
    [url |-> url, media_type |-> media_type, quality |-> quality,
     source_api |-> source_api]

\* mutant: the synthesized entry reports one stream found
ExceptionResult_counts(cls) ==
    SearchResult(ApiName(cls), FALSE, 1, "Exception during search", "EXCEPTION",
                 "exception text")

\* the entry the callers build in `except Exception` around search_streams
ExceptionResult(cls) ==
    SearchResult(ApiName(cls), FALSE, 0, "Exception during search", "EXCEPTION",
                 "exception text")

Acc(streams, results) == [all_streams |-> streams, search_results |-> results]

\* search_movie, one iteration of `for api_instance in video_source_apis`:
\* each stream is converted to a StreamInfo, which reads stream.source_api; a
\* stream without that attribute raises AttributeError inside the try block,
\* which ends the iteration in the except branch
collect_search_movie(acc, cls, r) ==
    IF r.raised
    THEN Acc(acc.all_streams, Append(acc.search_results, ExceptionResult(cls)))
    ELSE LET bad == {k \in 1..Len(r.sources) : ~HasAttr(r.sources[k], "source_api")}
             n == IF bad = {} THEN Len(r.sources) ELSE Min(bad) - 1
             infos == [k \in 1..n |->
                          StreamInfo(r.sources[k].url, r.sources[k].media_type,
                                     r.sources[k].quality, r.sources[k]["source_api"])]
         IN  IF bad = {}
             THEN Acc(acc.all_streams \o infos, acc.search_results \o r.search_results)
             ELSE Acc(acc.all_streams \o infos,
                      Append(acc.search_results, ExceptionResult(cls)))

\* mutant: a provider that raises leaves no outcome behind
collect_cast_movie_silent(acc, cls, r) ==
    IF r.raised
    THEN acc
    ELSE Acc(acc.all_streams \o r.sources, acc.search_results \o r.search_results)

\* cast_movie, one iteration of the provider loop
collect_cast_movie(acc, cls, r) ==
    IF r.raised
    THEN Acc(acc.all_streams, Append(acc.search_results, ExceptionResult(cls)))
    ELSE Acc(acc.all_streams \o r.sources, acc.search_results \o r.search_results)

\* perform_background_cast, one iteration: no outcome list is kept
collect_background_cast(acc, cls, r) ==
    IF r.raised
    THEN acc
    ELSE Acc(acc.all_streams \o r.sources, acc.search_results)

\* main_workflow, one iteration of the provider loop
collect_main_workflow(acc, cls, r) ==
    IF r.raised
    THEN Acc(acc.all_streams, Append(acc.search_results, ExceptionResult(cls)))
    ELSE Acc(acc.all_streams \o r.sources, acc.search_results \o r.search_results)

\* mutant: a provider's transport failure ends the provider loop
SearchStreams_aborts(up) ==
    /\ pc = "searching"
    /\ api_idx <= Len(video_source_apis)
    /\ LET cls == video_source_apis[api_idx]
           r == search_streams(cls, metadata[1], video_req[1], up)
           acc == Acc(all_streams, search_results)
           new == CASE path = "search" -> collect_search_movie(acc, cls, r)
                    [] path = "cast" -> collect_cast_movie(acc, cls, r)
                    [] path = "cast_background" -> collect_background_cast(acc, cls, r)
                    [] path = "cli" -> collect_main_workflow(acc, cls, r)
       IN  /\ all_streams' = new.all_streams
           /\ search_results' = new.search_results
           /\ returned' = Append(returned, [cls |-> cls, up |-> up, result |-> r])
    /\ api_idx' = IF up.kind = "transport" THEN Len(video_source_apis) + 1
                  ELSE api_idx + 1
    /\ UNCHANGED <<video_source_apis, path, pc, video_req, stream_index,
                   target_device, metadata, selected_stream, response, outcome,
                   cast>>

\* mutant: the candidates are kept in the order in which the provider calls
\* complete, which is not the same in every run
SearchStreams_completion_order(up) ==
    /\ pc = "searching"
    /\ api_idx <= Len(video_source_apis)
    /\ LET cls == video_source_apis[api_idx]
           r == search_streams(cls, metadata[1], video_req[1], up)
           acc == Acc(all_streams, search_results)
           new == CASE path = "search" -> collect_search_movie(acc, cls, r)
                    [] path = "cast" -> collect_cast_movie(acc, cls, r)
                    [] path = "cast_background" -> collect_background_cast(acc, cls, r)
                    [] path = "cli" -> collect_main_workflow(acc, cls, r)
           added == SubSeq(new.all_streams, Len(all_streams) + 1,
                           Len(new.all_streams))
       IN  /\ all_streams' = IF Len(returned) < Len(video_source_apis)
                             THEN new.all_streams
                             ELSE added \o all_streams
           /\ search_results' = new.search_results
           /\ returned' = Append(returned, [cls |-> cls, up |-> up, result |-> r])
    /\ api_idx' = api_idx + 1
    /\ UNCHANGED <<video_source_apis, path, pc, video_req, stream_index,
                   target_device, metadata, selected_stream, response, outcome,
                   cast>>

\* await api_instance.search_streams(metadata, video_req) for the provider
\* the loop has reached, and the rest of that iteration
SearchStreams(up) ==
    /\ pc = "searching"
    /\ api_idx <= Len(video_source_apis)
    /\ LET cls == video_source_apis[api_idx]
           r == search_streams(cls, metadata[1], video_req[1], up)
           acc == Acc(all_streams, search_results)
           new == CASE path = "search" -> collect_search_movie(acc, cls, r)
                    [] path = "cast" -> collect_cast_movie(acc, cls, r)
                    [] path = "cast_background" -> collect_background_cast(acc, cls, r)
                    [] path = "cli" -> collect_main_workflow(acc, cls, r)
       IN  /\ all_streams' = new.all_streams
           /\ search_results' = new.search_results
           /\ returned' = Append(returned, [cls |-> cls, up |-> up, result |-> r])
    /\ api_idx' = api_idx + 1
    /\ UNCHANGED <<video_source_apis, path, pc, video_req, stream_index,
                   target_device, metadata, selected_stream, response, outcome,
                   cast>>

\* the provider loop's next iteration, on whatever the upstream answers
InvokeProvider ==
    /\ pc = "searching"
    /\ api_idx <= Len(video_source_apis)
    /\ \E up \in UpstreamChoices(video_source_apis[api_idx]) : SearchStreams(up)

\* ------------------------------------------------------- stream selection

\* mutant: the emptiness check is lost
no_streams_never(streams) == FALSE

\* `if not all_streams:`
no_streams(streams) == streams = <<>>

\* Python's seq[i]: a negative index counts from the end; IndexError (None
\* here) outside -len .. len-1
PyIndex(seq, i) ==
    IF 0 <= i /\ i < Len(seq) THEN Some(seq[i + 1])
    ELSE IF i < 0 /\ 0 - Len(seq) <= i THEN Some(seq[Len(seq) + i + 1])
    ELSE None

\* stream_index = min(request.stream_index, len(all_streams) - 1)
\* selected_stream = all_streams[stream_index]
select_stream(streams, index) ==
    PyIndex(streams, Min({index, Len(streams) - 1}))

\* stream.url.startswith(("https://example-", "http://example-"))
IsPlaceholder(url) ==
    StartsWith(url, HTTPS \o EXAMPLE) \/ StartsWith(url, HTTP_ \o EXAMPLE)

\* mutant: the placeholder filter is lost
real_streams_unfiltered(streams) == streams

\* main_workflow: real_streams
real_streams(streams) == SelectSeq(streams, LAMBDA st : ~IsPlaceholder(st.url))

\* cast_to_roku: the title sent as videoName
display_title_of(stream, media_metadata) ==
    IF media_metadata # None /\ media_metadata[1].confirmed_title # ""
    THEN media_metadata[1].confirmed_title
    ELSE IF ~Falsy(stream.from_request.title)
    THEN stream.from_request.title[1]
    ELSE "Unknown Title"

\* cast_to_roku(stream, device, app_config, client, media_metadata) up to its
\* first await
StartCast(stream, media_metadata) ==
    [IdleCast EXCEPT !.pc = "check", !.stream = Some(stream),
                     !.media_metadata = media_metadata,
                     !.display_title = display_title_of(stream, media_metadata)]

RECURSIVE SumStreamsFound(_)
SumStreamsFound(results) ==
    IF results = <<>> THEN 0
    ELSE Head(results).streams_found + SumStreamsFound(Tail(results))

\* mutant: the summary adds up the candidates instead of counting the
\* successful outcomes
Successful_counts_streams(results) == SumStreamsFound(results)

\* len([r for r in search_results if r.success])
Successful(results) == Cardinality({k \in 1..Len(results) : results[k].success})

\* main_workflow, "Search Results Summary": "Total APIs searched" and
\* "Successful searches", computed from the registry and the outcome list
CliSummary ==
    [total_apis_searched |-> Len(video_source_apis),
     successful_searches |-> Successful(search_results)]

SearchResponse ==
    [kind |-> "SearchResponse", streams |-> all_streams,
     search_results |-> search_results,
     total_apis_searched |-> Len(video_source_apis),
     successful_searches |-> Successful(search_results)]

CastResponse(success, message, stream_info) ==
    [kind |-> "CastResponse", success |-> success, message |-> message,
     stream_info |-> stream_info, search_results |-> search_results]

\* mutant: the empty aggregate is answered like a cast the device refused
NoStreamsResponse_as_cast_failure == CastResponse(FALSE, "Failed to cast", None)

\* cast_movie, `if not all_streams:`: the answer has no stream_info
NoStreamsResponse ==
    CastResponse(FALSE, "No video streams found for this movie", None)

\* an exception no handler catches: the framework answers 500
InternalServerError == [kind |-> "InternalServerError", status_code |-> 500]

\* search_movie after the provider loop
FinishSearch ==
    /\ pc = "searching" /\ api_idx > Len(video_source_apis)
    /\ path = "search"
    /\ Finish(SearchResponse, "searched")
    /\ UNCHANGED <<video_source_apis, path, video_req, stream_index,
                   target_device, metadata, api_idx, returned, all_streams,
                   search_results, selected_stream, cast>>

\* cast_movie between the provider loop and `await cast_to_roku(...)`
SelectCast ==
    /\ pc = "searching" /\ api_idx > Len(video_source_apis)
    /\ path = "cast"
    /\ IF no_streams(all_streams)
       THEN /\ Finish(NoStreamsResponse, "no_streams")
            /\ UNCHANGED <<selected_stream, cast>>
       ELSE IF select_stream(all_streams, stream_index) = None
       THEN /\ Finish(InternalServerError, "error")
            /\ UNCHANGED <<selected_stream, cast>>
       ELSE /\ selected_stream' = select_stream(all_streams, stream_index)
            /\ cast' = [cast EXCEPT ![1] = StartCast(selected_stream'[1], None)]
            /\ pc' = "casting"
            /\ UNCHANGED <<response, outcome>>
    /\ UNCHANGED <<video_source_apis, path, video_req, stream_index,
                   target_device, metadata, api_idx, returned, all_streams,
                   search_results>>

\* perform_background_cast between the provider loop and cast_to_roku; the
\* task's outer `except Exception` catches the IndexError
SelectBackground ==
    /\ pc = "searching" /\ api_idx > Len(video_source_apis)
    /\ path = "cast_background"
    /\ IF no_streams(all_streams)
       THEN /\ pc' = "done" /\ outcome' = "no_streams"
            /\ UNCHANGED <<selected_stream, cast>>
       ELSE IF select_stream(all_streams, stream_index) = None
       THEN /\ pc' = "done" /\ outcome' = "error"
            /\ UNCHANGED <<selected_stream, cast>>
       ELSE /\ selected_stream' = select_stream(all_streams, stream_index)
            /\ cast' = [cast EXCEPT ![1] = StartCast(selected_stream'[1], None)]
            /\ pc' = "casting"
            /\ UNCHANGED outcome
    /\ UNCHANGED <<video_source_apis, path, video_req, stream_index,
                   target_device, metadata, api_idx, returned, all_streams,
                   search_results, response>>

\* main_workflow between the provider loop and cast_to_roku: the summary, the
\* placeholder filter and the user's choice at the select_video_stream prompt
\* (which accepts only 1 .. len(real_streams))
SelectCli ==
    /\ pc = "searching" /\ api_idx > Len(video_source_apis)
    /\ path = "cli"
    /\ IF no_streams(all_streams)
       THEN /\ pc' = "done" /\ outcome' = "no_streams"
            /\ UNCHANGED <<selected_stream, cast>>
       ELSE IF real_streams(all_streams) = <<>>
       THEN /\ pc' = "done" /\ outcome' = "no_real_streams"
            /\ UNCHANGED <<selected_stream, cast>>
       ELSE /\ \E choice_idx \in 0..(Len(real_streams(all_streams)) - 1) :
                 selected_stream' = Some(real_streams(all_streams)[choice_idx + 1])
            /\ cast' = [cast EXCEPT ![1] = StartCast(selected_stream'[1], metadata)]
            /\ pc' = "casting"
            /\ UNCHANGED outcome
    /\ UNCHANGED <<video_source_apis, path, video_req, stream_index,
                   target_device, metadata, api_idx, returned, all_streams,
                   search_results, response>>

\* ------------------------------------------------- the cast state machine

\* mutant: any answer of the device counts as responsive, whatever its status
check_roku_responsive_any_answer(answer) == answer # TransportError

\* check_roku_responsive: True iff the status query answers 200; a timeout
\* or connection error is caught and gives False
check_roku_responsive(answer) == answer = 200

\* mutant: only 200 is taken as acceptance
power_on_roku_only_ok(answer) == answer = 200

\* mutant: any answer of the device is taken as acceptance
power_on_roku_any_answer(answer) == answer # TransportError

\* power_on_roku: response.status_code in [200, 202]; errors give False
power_on_roku(answer) == answer \in {200, 202}

\* mutant: every 2xx answer to the launch counts as success
launch_succeeded_any_2xx(answer) == answer \in {200, 204}

\* cast_to_roku's launch: raise_for_status, then status_code == 200; every
\* exception is caught and gives False
launch_succeeded(answer) == answer = 200

Exchange(call, answer) == [call |-> call, answer |-> answer]

\* mutant: the wake command is sent whatever the status query answered
CheckResponsive_always_wakes(a, answer) ==
    /\ cast[a].pc = "check"
    /\ cast' = [cast EXCEPT
                  ![a].is_responsive = check_roku_responsive(answer),
                  ![a].n_check = @ + 1,
                  ![a].last = Exchange("status", answer),
                  ![a].pc = "power_on"]
    /\ UNCHANGED flow_vars

\* is_responsive = await check_roku_responsive(device, client)
CheckResponsive(a, answer) ==
    /\ cast[a].pc = "check"
    /\ cast' = [cast EXCEPT
                  ![a].is_responsive = check_roku_responsive(answer),
                  ![a].n_check = @ + 1,
                  ![a].last = Exchange("status", answer),
                  ![a].pc = IF check_roku_responsive(answer)
                            THEN "launch" ELSE "power_on"]
    /\ UNCHANGED flow_vars

\* mutant: a wake command another invocation has sent is not sent again
PowerOn_once_per_device(a, answer) ==
    /\ cast[a].pc = "power_on"
    /\ IF \E b \in Attempts : b # a /\ cast[b].n_wake > 0
       THEN cast' = [cast EXCEPT ![a].attempt = 0, ![a].pc = "sleep"]
       ELSE cast' = [cast EXCEPT
                       ![a].n_wake = @ + 1,
                       ![a].last = Exchange("wake", answer),
                       ![a].attempt = 0,
                       ![a].pc = IF power_on_roku(answer) THEN "sleep" ELSE "done",
                       ![a].result = IF power_on_roku(answer) THEN None
                                     ELSE Some(FALSE)]
    /\ UNCHANGED flow_vars

\* power_on_success = await power_on_roku(device, client)
PowerOn(a, answer) ==
    /\ cast[a].pc = "power_on"
    /\ cast' = [cast EXCEPT
                  ![a].n_wake = @ + 1,
                  ![a].last = Exchange("wake", answer),
                  ![a].attempt = 0,
                  ![a].pc = IF power_on_roku(answer) THEN "sleep" ELSE "done",
                  ![a].result = IF power_on_roku(answer) THEN None ELSE Some(FALSE)]
    /\ UNCHANGED flow_vars

\* wait_for_roku_ready: await asyncio.sleep(1)
Sleep(a) ==
    /\ cast[a].pc = "sleep"
    /\ cast' = [cast EXCEPT ![a].n_sleep = @ + 1, ![a].pc = "poll"]
    /\ UNCHANGED flow_vars

\* mutant: the loop makes one attempt more than max_wait_time
Poll_one_more(a, answer) ==
    /\ cast[a].pc = "poll"
    /\ cast' = [cast EXCEPT
                  ![a].n_poll = @ + 1,
                  ![a].last = Exchange("status", answer),
                  ![a].attempt = IF ~check_roku_responsive(answer)
                                    /\ @ + 1 <= MaxWaitTime
                                 THEN @ + 1 ELSE @,
                  ![a].pc = IF check_roku_responsive(answer) THEN "launch"
                            ELSE IF cast[a].attempt + 1 <= MaxWaitTime THEN "sleep"
                            ELSE "done",
                  ![a].result = IF ~check_roku_responsive(answer)
                                   /\ ~(cast[a].attempt + 1 <= MaxWaitTime)
                                THEN Some(FALSE) ELSE None]
    /\ UNCHANGED flow_vars

\* mutant: when the attempts are used up the attempt goes on to the launch
Poll_launches_on_timeout(a, answer) ==
    /\ cast[a].pc = "poll"
    /\ cast' = [cast EXCEPT
                  ![a].n_poll = @ + 1,
                  ![a].last = Exchange("status", answer),
                  ![a].attempt = IF ~check_roku_responsive(answer)
                                    /\ @ + 1 < MaxWaitTime
                                 THEN @ + 1 ELSE @,
                  ![a].pc = IF check_roku_responsive(answer) THEN "launch"
                            ELSE IF cast[a].attempt + 1 < MaxWaitTime THEN "sleep"
                            ELSE "launch"]
    /\ UNCHANGED flow_vars

\* mutant: a successful poll does not end the wait
Poll_without_return(a, answer) ==
    /\ cast[a].pc = "poll"
    /\ cast' = [cast EXCEPT
                  ![a].n_poll = @ + 1,
                  ![a].last = Exchange("status", answer),
                  ![a].attempt = IF @ + 1 < MaxWaitTime THEN @ + 1 ELSE @,
                  ![a].pc = IF cast[a].attempt + 1 < MaxWaitTime THEN "sleep"
                            ELSE "done",
                  ![a].result = IF ~(cast[a].attempt + 1 < MaxWaitTime)
                                THEN Some(FALSE) ELSE None]
    /\ UNCHANGED flow_vars

\* wait_for_roku_ready: `if await check_roku_responsive(...)` of iteration
\* `attempt` of `for attempt in range(max_wait_time)`, and what follows it
Poll(a, answer) ==
    /\ cast[a].pc = "poll"
    /\ cast' = [cast EXCEPT
                  ![a].n_poll = @ + 1,
                  ![a].last = Exchange("status", answer),
                  ![a].attempt = IF ~check_roku_responsive(answer)
                                    /\ @ + 1 < MaxWaitTime
                                 THEN @ + 1 ELSE @,
                  ![a].pc = IF check_roku_responsive(answer) THEN "launch"
                            ELSE IF cast[a].attempt + 1 < MaxWaitTime THEN "sleep"
                            ELSE "done",
                  ![a].result = IF ~check_roku_responsive(answer)
                                   /\ ~(cast[a].attempt + 1 < MaxWaitTime)
                                THEN Some(FALSE) ELSE None]
    /\ UNCHANGED flow_vars

\* mutant: a launch that did not succeed is sent again
Launch_retries(a, answer) ==
    /\ cast[a].pc = "launch"
    /\ cast' = [cast EXCEPT
                  ![a].n_launch = @ + 1,
                  ![a].last = Exchange("launch", answer),
                  ![a].pc = IF launch_succeeded(answer) THEN "done" ELSE "launch",
                  ![a].result = IF launch_succeeded(answer) THEN Some(TRUE) ELSE None]
    /\ UNCHANGED flow_vars

\* response = await client.post(launch_url, params=params, timeout=10.0)
Launch(a, answer) ==
    /\ cast[a].pc = "launch"
    /\ cast' = [cast EXCEPT
                  ![a].n_launch = @ + 1,
                  ![a].last = Exchange("launch", answer),
                  ![a].pc = "done",
                  ![a].result = Some(launch_succeeded(answer))]
    /\ UNCHANGED flow_vars

\* ------------------------------------------------------ after cast_to_roku

\* cast_movie after `await cast_to_roku(...)`: the StreamInfo of the selected
\* stream reads selected_stream.source_api
ReturnCast ==
    /\ pc = "casting" /\ path = "cast"
    /\ cast[1].pc = "done"
    /\ LET st == selected_stream[1]
           success == cast[1].result[1]
       IN  IF ~HasAttr(st, "source_api")
           THEN Finish(InternalServerError, "error")
           ELSE Finish(CastResponse(success,
                           IF success THEN "Successfully initiated casting"
                           ELSE "Failed to cast",
                           Some(StreamInfo(st.url, st.media_type, st.quality,
                                           st["source_api"]))),
                       IF success THEN "cast_ok" ELSE "cast_failed")
    /\ UNCHANGED <<video_source_apis, path, video_req, stream_index,
                   target_device, metadata, api_idx, returned, all_streams,
                   search_results, selected_stream, cast>>

\* perform_background_cast and main_workflow after cast_to_roku: the result
\* is printed
ReturnPrinted ==
    /\ pc = "casting" /\ path \in {"cast_background", "cli"}
    /\ cast[1].pc = "done"
    /\ pc' = "done"
    /\ outcome' = IF cast[1].result[1] THEN "cast_ok" ELSE "cast_failed"
    /\ UNCHANGED <<video_source_apis, path, video_req, stream_index,
                   target_device, metadata, api_idx, returned, all_streams,
                   search_results, selected_stream, response, cast>>

\* ------------------------------------------------------------ specification

Next ==
    \/ \E rq \in RequestChoices : ReceiveSearch(rq.title, rq.imdb_id)
    \/ \E rq \in RequestChoices, d \in DestinationChoices, x \in IndexChoices :
          ReceiveCast(rq.title, rq.imdb_id, d, x)
    \/ \E rq \in RequestChoices, d \in DestinationChoices, x \in IndexChoices :
          ReceiveCastBackground(rq.title, rq.imdb_id, d, x)
    \/ \E rq \in RequestChoices, d \in DestinationChoices :
          ReceiveCli(rq.title, rq.imdb_id, d)
    \/ \E m \in MetadataChoices : Lookup(m)
    \/ InvokeProvider
    \/ FinishSearch
    \/ SelectCast
    \/ SelectBackground
    \/ SelectCli
    \/ \E answer \in StatusAnswers : CheckResponsive(1, answer)
    \/ \E answer \in WakeAnswers : PowerOn(1, answer)
    \/ Sleep(1)
    \/ \E answer \in StatusAnswers : Poll(1, answer)
    \/ \E answer \in LaunchAnswers : Launch(1, answer)
    \/ ReturnCast
    \/ ReturnPrinted

Spec == Init /\ [][Next]_vars

\* ------------------------------------------- cast_to_roku called directly

\* the streams roku_caster's own entry point (its main()) and the callers
\* hand to cast_to_roku: any VideoStream, with or without metadata
StandaloneStreams ==
    { VideoStream(CDN \o <<"b", "b", "b", ".", "m", "p", "4">>, MP4, "1080p",
                  VideoRequest(Some("Big Buck Bunny"), None, "Living Room"),
                  "Test API"),
      VideoStream(CDN \o <<"s", "?", "k">>, <<"m", "3", "u", "8">>, "HD",
                  VideoRequest(None, Some("tt1375666"), "Living Room"),
                  "Test API") }

InitCast ==
    /\ video_source_apis = ProviderClasses
    /\ path = "standalone"
    /\ pc = "standalone"
    /\ video_req = None
    /\ stream_index = 0
    /\ target_device = Some(roku_devices[1])
    /\ metadata = None
    /\ api_idx = 1
    /\ returned = <<>>
    /\ all_streams = <<>>
    /\ search_results = <<>>
    /\ selected_stream = None
    /\ response = NoResponse
    /\ outcome = "none"
    /\ \E st \in StandaloneStreams, m \in MetadataChoices :
          cast = [a \in Casts |-> IF a = 1 THEN StartCast(st, m) ELSE IdleCast]

NextCast ==
    \/ \E answer \in StatusAnswers : CheckResponsive(1, answer)
    \/ \E answer \in WakeAnswers : PowerOn(1, answer)
    \/ Sleep(1)
    \/ \E answer \in StatusAnswers : Poll(1, answer)
    \/ \E answer \in LaunchAnswers : Launch(1, answer)

\* one invocation of cast_to_roku against a device that may answer anything
SpecCast == InitCast /\ [][NextCast]_vars

\* ------------------------------------------- cast_to_roku being cancelled

\* the awaits of cast_to_roku and of the functions it calls
SuspensionPoints == {"check", "power_on", "sleep", "poll", "launch"}

\* mutant: the cancellation is caught where it is delivered and counts as a
\* failed step of the loop, which goes on
Cancel_swallowed(a) ==
    /\ cast[a].pc \in SuspensionPoints
    /\ ~cast[a].cancelled
    /\ cast' = [cast EXCEPT ![a].cancelled = TRUE,
                            ![a].pc = IF @ = "sleep" THEN "poll"
                                      ELSE IF @ = "poll" THEN "sleep" ELSE @]
    /\ UNCHANGED flow_vars

\* The task running cast_to_roku is cancelled: asyncio raises CancelledError
\* at the await the task is suspended in. asyncio.sleep(1) is not inside a
\* try; the handlers around the HTTP calls name httpx exceptions or Exception,
\* and CancelledError is neither (it derives from BaseException), so it
\* leaves wait_for_roku_ready and cast_to_roku without a return value.
Cancel(a) ==
    /\ cast[a].pc \in SuspensionPoints
    /\ ~cast[a].cancelled
    /\ cast' = [cast EXCEPT ![a].cancelled = TRUE, ![a].pc = "cancelled"]
    /\ UNCHANGED flow_vars

NextCancel ==
    \/ NextCast
    \/ Cancel(1)

\* one invocation of cast_to_roku that may be cancelled at any await
SpecCancel == InitCast /\ [][NextCancel]_vars

\* every await of cast_to_roku comes back: the status query (timeout=3.0),
\* the wake command (timeout=5.0), asyncio.sleep(1) and the launch command
\* (timeout=10.0) each end with an answer or with a timeout error
SpecCastFair == InitCast /\ [][NextCast]_vars /\ WF_vars(NextCast)

\* ------------------------------- the same aggregation, run a second time

\* perform_background_cast at its provider loop, for any registry and any
\* stream_index (this path writes no response, so `response` is free to keep
\* the record of the first run)
InitTwoRuns ==
    /\ video_source_apis \in RegistryChoices
    /\ path = "cast_background"
    /\ pc = "searching"
    /\ video_req = Some(VideoRequest(Some("inception"), None, roku_devices[1].name))
    /\ stream_index \in IndexChoices
    /\ target_device = Some(roku_devices[1])
    /\ metadata = Some(MediaMetadata("Inception", Some(27205)))
    /\ api_idx = 1
    /\ returned = <<>>
    /\ all_streams = <<>>
    /\ search_results = <<>>
    /\ selected_stream = None
    /\ response = NoResponse
    /\ outcome = "none"
    /\ cast = [a \in Casts |-> IdleCast]

\* what a run has produced when it has selected a stream or has ended
RunRecord ==
    [kind |-> "FirstRun", all_streams |-> all_streams,
     selected_stream |-> selected_stream, outcome |-> outcome]

\* first run: the provider loop's next iteration, on whatever the upstream
\* answers
FirstRunProvider ==
    /\ response = NoResponse
    /\ InvokeProvider

\* the first run is over (a stream was selected, or there was none): its
\* candidates and its selection are recorded, and the same request is made
\* again, over the same registry with the same metadata and stream_index
RunAgain ==
    /\ response = NoResponse
    /\ pc \in {"casting", "done"}
    /\ response' = RunRecord
    /\ pc' = "searching"
    /\ api_idx' = 1
    /\ all_streams' = <<>>
    /\ selected_stream' = None
    /\ outcome' = "none"
    /\ cast' = [a \in Casts |-> IdleCast]
    /\ UNCHANGED <<video_source_apis, path, video_req, stream_index,
                   target_device, metadata, returned, search_results>>

\* second run: the provider loop's next iteration, the upstream answering
\* what it answered to the same provider in the first run
SecondRunProvider ==
    /\ response # NoResponse
    /\ pc = "searching"
    /\ api_idx <= Len(video_source_apis)
    /\ SearchStreams(returned[api_idx].up)

NextTwoRuns ==
    \/ FirstRunProvider
    \/ RunAgain
    \/ SecondRunProvider
    \/ SelectBackground

\* perform_background_cast up to its call of cast_to_roku, twice on the same
\* inputs
SpecTwoRuns == InitTwoRuns /\ [][NextTwoRuns]_vars

\* -------------------------------------- media-type inference on its own

\* the part of a stream URL before its file suffix: a host without and a
\* host with a dot, and a bare file name
UrlStems ==
    { CDN \o <<"v">>,
      HTTPS \o <<"c", ".", "d", "n", "/", "v">>,
      <<"v">> }

\* what follows the stem: nothing, the known extensions, known extensions in
\* upper case, and suffixes the code does not know
UrlTails ==
    { <<>>,
      <<".", "m", "p", "4">>,
      <<".", "m", "k", "v">>,
      <<".", "a", "v", "i">>,
      <<".", "m", "o", "v">>,
      <<".", "w", "m", "v">>,
      <<".", "f", "l", "v">>,
      <<".", "w", "e", "b", "m">>,
      <<".", "m", "3", "u", "8">>,
      <<".", "M", "K", "V">>,
      <<".", "M", "p", "4">>,
      <<".", "t", "s">>,
      <<".", "P", "K">>,
      <<".", "j", "p", "e", "g">>,
      <<".", "w", "e", "b", "m", "x">>,
      <<".", "a", "-", "b">>,
      <<".">>,
      <<".", "m", "p", "4", ".", "b", "a", "k">>,
      <<".", "t", "a", "r", ".", "m", "k", "v">> }

\* the query string, if any
UrlQueries ==
    { <<>>,
      <<"?">>,
      <<"?", "t", "o", "k", "e", "n", "=", "a", "b", "c">>,
      <<"?", "f", "=", "a", ".", "m", "p", "4">>,
      <<"?", "a", "?", "b", ".", "c">> }

UrlChoices == { s \o t \o q : s \in UrlStems, t \in UrlTails, q \in UrlQueries }

InitMediaType ==
    /\ video_source_apis = ProviderClasses
    /\ path = "media_type"
    /\ pc = "media_type"
    /\ video_req = None
    /\ stream_index = 0
    /\ target_device = None
    /\ metadata = None
    /\ api_idx = 1
    /\ returned = <<>>
    /\ all_streams = <<>>
    /\ search_results = <<>>
    /\ selected_stream = None
    /\ response = NoResponse
    /\ outcome = "none"
    /\ cast = [a \in Casts |-> IdleCast]

\* media_type = self._get_media_type_from_url(stream_url)
InferMediaType(url) ==
    /\ pc = "media_type"
    /\ returned' = Append(returned,
                          [url |-> url, media_type |-> get_media_type_from_url(url)])
    /\ pc' = "done"
    /\ UNCHANGED <<video_source_apis, path, video_req, stream_index,
                   target_device, metadata, api_idx, all_streams,
                   search_results, selected_stream, response, outcome, cast>>

NextMediaType == \E url \in UrlChoices : InferMediaType(url)

\* _get_media_type_from_url applied to one URL
SpecMediaType == InitMediaType /\ [][NextMediaType]_vars

\* ---------------------------------- several invocations of cast_to_roku

InitAttempts ==
    /\ video_source_apis = ProviderClasses
    /\ path = "standalone"
    /\ pc = "standalone"
    /\ video_req = None
    /\ stream_index = 0
    /\ target_device = Some(roku_devices[1])
    /\ metadata = None
    /\ api_idx = 1
    /\ returned = <<>>
    /\ all_streams = <<>>
    /\ search_results = <<>>
    /\ selected_stream = None
    /\ response = NoResponse
    /\ outcome = "none"
    /\ \E st \in StandaloneStreams :
          cast = [a \in Attempts |-> IF a = 1 THEN StartCast(st, None) ELSE IdleCast]

\* mutant: the readiness found by the earlier invocation is kept for the
\* device, and a device found unresponsive is woken without a status query
StartAttempt_remembers(a) ==
    /\ cast[a].pc = "idle"
    /\ \A b \in Attempts : b < a => cast[b].pc = "done"
    /\ cast' = [cast EXCEPT
                  ![a] = [StartCast(cast[1].stream[1], cast[1].media_metadata)
                            EXCEPT !.pc = IF cast[a - 1].is_responsive
                                          THEN "check" ELSE "power_on"]]
    /\ UNCHANGED flow_vars

\* cast_to_roku is called again for the same device after the earlier call
\* returned: its is_responsive, power_on_success and ready, and the loop
\* variable of wait_for_roku_ready, are locals of the new call
StartAttempt(a) ==
    /\ cast[a].pc = "idle"
    /\ \A b \in Attempts : b < a => cast[b].pc = "done"
    /\ cast' = [cast EXCEPT
                  ![a] = StartCast(cast[1].stream[1], cast[1].media_metadata)]
    /\ UNCHANGED flow_vars

\* cast_to_roku is called for the same device while an earlier call is
\* suspended at one of its awaits (a second background task, or a second
\* request handler, on the same event loop)
StartConcurrent(a) ==
    /\ cast[a].pc = "idle"
    /\ \A b \in Attempts : b < a => cast[b].pc # "idle"
    /\ cast' = [cast EXCEPT
                  ![a] = StartCast(cast[1].stream[1], cast[1].media_metadata)]
    /\ UNCHANGED flow_vars

\* the steps of the invocations, interleaved at every await
AttemptStep ==
    \/ \E a \in Attempts, answer \in StatusAnswers : CheckResponsive(a, answer)
    \/ \E a \in Attempts, answer \in WakeAnswers : PowerOn(a, answer)
    \/ \E a \in Attempts : Sleep(a)
    \/ \E a \in Attempts, answer \in StatusAnswers : Poll(a, answer)
    \/ \E a \in Attempts, answer \in LaunchAnswers : Launch(a, answer)

NextSequential ==
    \/ \E a \in Attempts : StartAttempt(a)
    \/ AttemptStep

\* cast_to_roku called for one device again and again, each call after the
\* one before it has returned
SpecSequential == InitAttempts /\ [][NextSequential]_vars

NextConcurrent ==
    \/ \E a \in Attempts : StartConcurrent(a)
    \/ AttemptStep

\* calls of cast_to_roku for one device that overlap in time
SpecConcurrent == InitAttempts /\ [][NextConcurrent]_vars

\* ------------------------------------------- providers called directly

\* MediaMetadata a provider may be handed: tmdb_id is Optional[int]
ProviderMetadataChoices ==
    { MediaMetadata("Inception", None),
      MediaMetadata("Inception", Some(0)),
      MediaMetadata("Inception", Some(27205)) }

\* an entry of the quality map whose URL is not a string (JSON null)
NullEntry(quality) == [quality |-> quality, url |-> <<>>, valid |-> FALSE]

\* a quality map with labels outside the preference list, in an order that
\* is not the preference order
MixedQualities(cls) ==
    << Entry("CAM", CDN \o <<HostChar(cls), "c", ".", "a", "v", "i">>),
       Entry("360P", CDN \o <<HostChar(cls), "3", ".", "m", "p", "4">>),
       Entry("4K", CDN \o <<HostChar(cls), "4", ".", "m", "k", "v">>),
       Entry("1080P", CDN \o <<HostChar(cls), "1", ".", "m", "3", "u", "8">>) >>

\* a quality map whose 720P entry has no URL
BrokenQualities(cls) ==
    << NullEntry("720P"),
       Entry("1080P", CDN \o <<HostChar(cls), "1", ".", "m", "p", "4">>) >>

\* what the upstream may do with a provider's GET: time out or fail to
\* connect, answer an error status, answer a body that is not the JSON object
\* expected, or answer a JSON object
ProviderUpstreamChoices(cls) ==
    UpstreamChoices(cls)
    \cup { [kind |-> "transport"], [kind |-> "undecodable"],
           [kind |-> "status", code |-> 404], [kind |-> "status", code |-> 429],
           [kind |-> "status", code |-> 500] }
    \cup (IF cls = "XPrimePrimenetAPI"
          THEN { [kind |-> "json", status |-> None, streams |-> <<NullEntry("")>>] }
          ELSE { [kind |-> "json", status |-> Some("ok"), streams |-> <<>>],
                 [kind |-> "json", status |-> Some("error"), streams |-> <<>>],
                 [kind |-> "json", status |-> None, streams |-> <<>>],
                 [kind |-> "json", status |-> Some("ok"), streams |-> MixedQualities(cls)],
                 [kind |-> "json", status |-> Some("ok"), streams |-> BrokenQualities(cls)] })

\* no upstream answer: the call returned before any request
NoAnswer == [kind |-> "none"]

InitProvider ==
    /\ video_source_apis = ProviderClasses
    /\ path = "provider"
    /\ pc = "provider"
    /\ video_req = Some(VideoRequest(Some("inception"), None, "Living Room"))
    /\ stream_index = 0
    /\ target_device = None
    /\ metadata \in { Some(m) : m \in ProviderMetadataChoices }
    /\ api_idx = 1
    /\ returned = <<>>
    /\ all_streams = <<>>
    /\ search_results = <<>>
    /\ selected_stream = None
    /\ response = NoResponse
    /\ outcome = "none"
    /\ cast = [a \in Casts |-> IdleCast]

\* search_streams(metadata, original_request) of provider k up to its await:
\* it returns at once, or its GET is in flight
ProviderCall(k) ==
    /\ pc = "provider"
    /\ Len(returned) < MaxCalls
    /\ LET cls == video_source_apis[k]
       IN  IF sends_request(cls, metadata[1])
           THEN /\ pc' = "upstream"
                /\ api_idx' = k
                /\ UNCHANGED returned
           ELSE /\ returned' = Append(returned,
                       [cls |-> cls, up |-> NoAnswer, requests |-> 0,
                        result |-> search_streams(cls, metadata[1], video_req[1],
                                                  NoAnswer)])
                /\ UNCHANGED <<pc, api_idx>>
    /\ UNCHANGED <<video_source_apis, path, video_req, stream_index,
                   target_device, metadata, all_streams, search_results,
                   selected_stream, response, outcome, cast>>

\* search_streams from the answer to its GET to its return
ProviderAnswer(up) ==
    /\ pc = "upstream"
    /\ LET cls == video_source_apis[api_idx]
       IN  returned' = Append(returned,
               [cls |-> cls, up |-> up, requests |-> 1,
                result |-> search_streams(cls, metadata[1], video_req[1], up)])
    /\ pc' = "provider"
    /\ UNCHANGED <<video_source_apis, path, video_req, stream_index,
                   target_device, metadata, api_idx, all_streams, search_results,
                   selected_stream, response, outcome, cast>>

NextProvider ==
    \/ \E k \in 1..Len(ProviderClasses) : ProviderCall(k)
    \/ /\ pc = "upstream"
       /\ \E up \in ProviderUpstreamChoices(video_source_apis[api_idx]) :
             ProviderAnswer(up)

\* the providers' search_streams called one after another on one metadata
SpecProvider == InitProvider /\ [][NextProvider]_vars

\* ================================================================= claims

N == Len(video_source_apis)

\* the provider loop was entered (main_workflow returns before the loop when
\* no provider was loaded) and has gone through the whole registry
RunComplete ==
    /\ metadata # None
    /\ pc \in {"searching", "casting", "done"}
    /\ ~(path = "cli" /\ N = 0)
    /\ api_idx > N

\* the paths that keep a list of provider outcomes
OutcomePaths == {"search", "cast", "cli"}

\* the paths that go on to select a stream and cast it
CastPaths == {"cast", "cast_background", "cli"}

RECURSIVE ConcatSources(_)
ConcatSources(rets) ==
    IF rets = <<>> THEN <<>>
    ELSE (IF Head(rets).result.raised THEN <<>> ELSE Head(rets).result.sources)
         \o ConcatSources(Tail(rets))

Urls(streams) == [k \in 1..Len(streams) |-> streams[k].url]

\* C1: when the provider loop of /search, /cast or the CLI workflow has gone
\* through a registry of N providers, the outcome list has exactly N entries,
\* the k-th being the outcome of the k-th registered provider, whatever each
\* provider did (returned candidates, returned a failure, raised).
C1_OneOutcomePerProvider ==
    (path \in OutcomePaths /\ RunComplete) =>
        /\ Len(search_results) = N
        /\ \A k \in 1..N : search_results[k].api_name = ApiName(video_source_apis[k])

\* a run over three providers of which one raised, one failed, one succeeded
C1_Witness ==
    /\ path = "cast" /\ RunComplete /\ N = 3
    /\ returned[1].result.raised
    /\ ~returned[2].result.raised /\ ~returned[2].result.search_results[1].success
    /\ ~returned[3].result.raised /\ returned[3].result.search_results[1].success
    /\ Len(search_results) = 3

\* C2 (as claimed): after the provider loop of /search and of /cast, the
\* aggregated candidate list is the concatenation, in registration order, of
\* the candidate lists the providers returned.
C2_AggregateIsConcatenation ==
    (path \in {"search", "cast"} /\ RunComplete) =>
        Urls(all_streams) = Urls(ConcatSources(returned))

\* C3 (as claimed): when some provider raised, every provider of the registry
\* was still invoked and every candidate of every non-raising provider is in
\* the aggregate, on all four paths.
C3_RaiseIsolated ==
    (RunComplete /\ \E k \in 1..Len(returned) : returned[k].result.raised) =>
        /\ Len(returned) = N
        /\ \A k \in 1..N : returned[k].cls = video_source_apis[k]
        /\ Urls(all_streams) = Urls(ConcatSources(returned))

Clamped(i, n) == IF 0 <= i /\ i < n THEN i ELSE n - 1

\* the stream selector of /cast and of the background cast has run
Selected ==
    /\ path \in {"cast", "cast_background"}
    /\ RunComplete
    /\ pc \in {"casting", "done"}

\* C5 (as claimed): over n >= 1 candidates and requested index i the selector
\* picks candidate i when 0 <= i < n and candidate n-1 otherwise, and never
\* fails.
C5_SelectionClamps ==
    (Selected /\ all_streams # <<>>) =>
        selected_stream =
            Some(all_streams[Clamped(stream_index, Len(all_streams)) + 1])

DeviceRequests(a) ==
    cast[a].n_check + cast[a].n_wake + cast[a].n_poll + cast[a].n_launch

\* C6: when the provider loop has finished with zero candidates, no request
\* is ever sent to the device, and the operation ends as a "no streams
\* found" failure (for /cast: a CastResponse with success false).
C6_NoCandidatesNoCast ==
    (path \in CastPaths /\ RunComplete /\ all_streams = <<>>) =>
        /\ \A a \in Casts : DeviceRequests(a) = 0 /\ cast[a].pc = "idle"
        /\ pc \in {"searching", "done"}
        /\ pc = "done" =>
              /\ outcome = "no_streams"
              /\ path = "cast" =>
                    /\ response.kind = "CastResponse"
                    /\ ~response.success

\* a /cast over three providers that found nothing has ended
C6_Witness ==
    /\ path = "cast" /\ RunComplete /\ N = 3
    /\ all_streams = <<>>
    /\ pc = "done" /\ outcome = "no_streams"

\* the answer of the most recent exchange of invocation a with the device
LastWas(a, call, answers) ==
    cast[a].last.call = call /\ cast[a].last.answer \in answers

\* C7: fast path. The initial status query counts as successful exactly when
\* it is answered 200, and an attempt whose initial status query succeeded
\* sends no wake command, sleeps and polls zero times, and is at the launch
\* command or past it with exactly one launch sent.
C7_FastPath ==
    \A a \in Casts :
        /\ (cast[a].n_check = 1 /\ cast[a].n_wake = 0 /\ cast[a].n_launch = 0
            /\ cast[a].n_poll = 0) =>
              (cast[a].is_responsive <=> LastWas(a, "status", {200}))
        /\ cast[a].is_responsive =>
              /\ cast[a].n_check = 1
              /\ cast[a].n_wake = 0 /\ cast[a].n_sleep = 0 /\ cast[a].n_poll = 0
              /\ cast[a].pc \in {"launch", "done"}
              /\ cast[a].pc = "done" => cast[a].n_launch = 1

\* an attempt that took the fast path and has sent its launch command
C7_Witness ==
    /\ cast[1].is_responsive
    /\ cast[1].pc = "done"
    /\ cast[1].n_wake = 0 /\ cast[1].n_launch = 1

\* C8: when the wake command is not accepted (any answer other than 200 or
\* 202, a timeout or transport error included), the attempt is over at once:
\* it has failed, with zero sleeps, zero boot polls and no launch command.
C8_WakeRejectedFailsAtOnce ==
    \A a \in Casts :
        (cast[a].n_wake = 1 /\ LastWas(a, "wake", WakeAnswers \ {200, 202})) =>
            /\ ~cast[a].is_responsive /\ cast[a].n_check = 1
            /\ cast[a].pc = "done"
            /\ cast[a].result = Some(FALSE)
            /\ cast[a].n_sleep = 0 /\ cast[a].n_poll = 0 /\ cast[a].n_launch = 0

\* the wake command was answered HTTP 500 and the attempt has failed
C8_Witness ==
    /\ LastWas(1, "wake", {500})
    /\ cast[1].pc = "done" /\ cast[1].result = Some(FALSE)

\* the step in which invocation a gets the answer to its wake command
WakeAnswered(a) == cast[a].pc = "power_on" /\ cast'[a].pc # "power_on"

\* C9: the step that gets the wake command's answer enters boot-waiting iff
\* the answer is 200 or 202 and otherwise ends the attempt as failed; and an
\* attempt that entered boot-waiting does not reach the launch command or its
\* end before at least one status poll was made.
C9_WakeAcceptedIff200or202 ==
    /\ [][\A a \in Casts : WakeAnswered(a) =>
             /\ cast'[a].last.call = "wake"
             /\ cast'[a].pc = "sleep" <=> cast'[a].last.answer \in {200, 202}
             /\ cast'[a].pc # "sleep" =>
                   (cast'[a].pc = "done" /\ cast'[a].result = Some(FALSE))]_vars
    /\ [](\A a \in Casts :
             (cast[a].n_wake = 1 /\ cast[a].pc \in {"launch", "done"}
              /\ ~LastWas(a, "wake", WakeAnswers)) => cast[a].n_poll >= 1)

\* the wake command was answered 202 and the attempt is in boot-waiting
C9_Witness ==
    /\ LastWas(1, "wake", {202})
    /\ cast[1].pc = "sleep" /\ cast[1].n_poll = 0

\* the step in which invocation a gets the answer to a boot poll
PollAnswered(a) == cast[a].pc = "poll" /\ cast'[a].pc # "poll"

\* C10: in boot-waiting every poll is preceded by its own 1-second sleep
\* (sleeps = polls, plus the one sleep of the poll about to be sent); the
\* poll answered 200 is the k-th poll after k-1 failed ones, 1 <= k <= 30,
\* it ends the wait at the launch command, a poll answered otherwise does
\* not; and once the wait has ended no further poll or sleep is made.
C10_ReadyOnKthPoll ==
    /\ [](\A a \in Casts :
             /\ cast[a].n_sleep = cast[a].n_poll + (IF cast[a].pc = "poll" THEN 1 ELSE 0)
             /\ cast[a].n_poll <= MaxWaitTime)
    /\ [][\A a \in Casts :
             /\ PollAnswered(a) =>
                   /\ cast'[a].n_poll = cast[a].n_poll + 1
                   /\ cast'[a].last.call = "status"
                   /\ cast'[a].pc = "launch" <=> cast'[a].last.answer = 200
                   /\ cast'[a].pc = "launch" =>
                         /\ cast'[a].n_poll = cast[a].attempt + 1
                         /\ cast'[a].n_sleep = cast'[a].n_poll
                         /\ cast'[a].n_poll \in 1..MaxWaitTime
                         /\ cast'[a].result = None
             /\ cast[a].pc \in {"launch", "done"} =>
                   /\ cast'[a].n_poll = cast[a].n_poll
                   /\ cast'[a].n_sleep = cast[a].n_sleep]_vars

\* the status query succeeded on the 10th poll: 10 polls, 10 sleeps, ready
C10_Witness ==
    /\ cast[1].pc = "launch" /\ LastWas(1, "status", {200})
    /\ cast[1].n_poll = 10 /\ cast[1].n_sleep = 10 /\ cast[1].n_wake = 1

\* C11: when no boot poll is answered 200, the wait makes exactly 30 polls
\* (a failed poll before the 30th is followed by another sleep and poll), then
\* the attempt ends as failed, with no launch command sent.
C11_BootTimeoutAfter30Polls ==
    /\ [](\A a \in Casts :
             (cast[a].pc = "done" /\ cast[a].n_wake = 1
              /\ LastWas(a, "status", StatusAnswers \ {200})) =>
                 /\ cast[a].n_poll = MaxWaitTime
                 /\ cast[a].n_sleep = MaxWaitTime
                 /\ cast[a].result = Some(FALSE)
                 /\ cast[a].n_launch = 0)
    /\ [][\A a \in Casts :
             (PollAnswered(a) /\ cast'[a].last.answer # 200) =>
                 /\ cast[a].n_poll + 1 < MaxWaitTime => cast'[a].pc = "sleep"
                 /\ cast[a].n_poll + 1 = MaxWaitTime =>
                       (cast'[a].pc = "done" /\ cast'[a].result = Some(FALSE))]_vars

\* the boot wait ran out: 30 failed polls, the attempt failed without a launch
C11_Witness ==
    /\ cast[1].pc = "done" /\ cast[1].n_wake = 1
    /\ LastWas(1, "status", {503})
    /\ cast[1].n_poll = 30 /\ cast[1].n_launch = 0
    /\ cast[1].result = Some(FALSE)

\* C12: an attempt sends the launch command at most once; once it is answered
\* the attempt is over, and an answer other than 200 (an error status, a
\* timeout or a transport error) is the attempt's failure.
C12_LaunchAtMostOnce ==
    \A a \in Casts :
        /\ cast[a].n_launch <= 1
        /\ cast[a].n_launch = 1 =>
              /\ cast[a].pc = "done"
              /\ cast[a].last.call = "launch"
              /\ cast[a].last.answer # 200 => cast[a].result = Some(FALSE)

\* the launch was answered HTTP 500 and the attempt has ended as failed
C12_Witness ==
    /\ cast[1].n_launch = 1 /\ LastWas(1, "launch", {500})
    /\ cast[1].pc = "done" /\ cast[1].result = Some(FALSE)

\* the step in which invocation a sends its launch command
LaunchSent(a) == cast'[a].n_launch > cast[a].n_launch

\* C13: the launch command is sent only when the most recent exchange with
\* the device was a status query answered 200 (the initial check or a boot
\* poll); an attempt that ended with a rejected wake command or with a failed
\* last poll has sent no launch.
C13_LaunchOnlyWhenReady ==
    /\ [][\A a \in Casts : LaunchSent(a) => LastWas(a, "status", {200})]_vars
    /\ [](\A a \in Casts :
             (cast[a].pc = "done"
              /\ (cast[a].last.call = "wake"
                  \/ LastWas(a, "status", StatusAnswers \ {200}))) =>
                 cast[a].n_launch = 0)

\* a launch sent after the device became ready on the second boot poll
C13_Witness ==
    /\ cast[1].n_launch = 1 /\ cast[1].n_wake = 1 /\ cast[1].n_poll = 2
    /\ ~cast[1].is_responsive

\* C14: a finished attempt has a boolean result (nothing is raised), and the
\* result is success exactly when the launch command was sent and answered
\* 200; an unfinished attempt has no result.
C14_SuccessIffLaunch200 ==
    \A a \in Casts :
        /\ cast[a].pc = "done" =>
              /\ cast[a].result \in {Some(TRUE), Some(FALSE)}
              /\ cast[a].result = Some(TRUE) <=>
                    (cast[a].n_launch = 1 /\ LastWas(a, "launch", {200}))
        /\ cast[a].pc # "done" => cast[a].result = None

\* the launch was answered 204, another 2xx code: the attempt failed
C14_Witness ==
    /\ cast[1].pc = "done" /\ LastWas(1, "launch", {204})
    /\ cast[1].result = Some(FALSE)

\* cast_to_roku was called for the request and metadata with a confirmed
\* title had been resolved for it
CastWithConfirmedTitle ==
    /\ cast[1].pc # "idle"
    /\ metadata # None
    /\ metadata[1].confirmed_title # ""

\* C15 (as claimed): on every path that casts (CLI, /cast, background cast),
\* when metadata with a confirmed title was resolved for the request, the
\* display title sent as videoName is that confirmed title.
C15_ConfirmedTitlePreferred ==
    (path \in CastPaths /\ CastWithConfirmedTitle) =>
        cast[1].display_title = metadata[1].confirmed_title

\* C16: an attempt sends at most 1 initial status query, 1 wake command,
\* 30 boot polls and 1 launch command, and whatever the device answers it
\* comes to its end.
C16_AttemptBoundedAndTerminates ==
    /\ [](\A a \in Casts :
             /\ cast[a].n_check <= 1
             /\ cast[a].n_wake <= 1
             /\ cast[a].n_poll <= MaxWaitTime
             /\ cast[a].n_launch <= 1)
    /\ <>(\A a \in Casts : cast[a].pc = "done")

\* the longest attempt: check, wake, ready on the 30th poll, launch
C16_Witness ==
    /\ cast[1].pc = "done"
    /\ cast[1].n_check = 1 /\ cast[1].n_wake = 1
    /\ cast[1].n_poll = 30 /\ cast[1].n_launch = 1

\* C17: a cancellation delivered while the boot wait is at its sleep or at
\* its status query ends the loop there: the attempt is left without a
\* result, and from then on no status poll, no sleep and no launch command
\* is made, however many of the 30 attempts were left.
C17_CancelEndsBootWait ==
    /\ [](\A a \in Casts :
             cast[a].cancelled => (cast[a].pc = "cancelled" /\ cast[a].result = None))
    /\ [][\A a \in Casts :
             /\ (cast[a].pc \in {"sleep", "poll"} /\ cast'[a].cancelled) =>
                   /\ cast'[a].n_poll = cast[a].n_poll
                   /\ cast'[a].n_sleep = cast[a].n_sleep
                   /\ cast'[a].n_launch = 0
             /\ cast[a].cancelled =>
                   /\ cast'[a].n_poll = cast[a].n_poll
                   /\ cast'[a].n_sleep = cast[a].n_sleep
                   /\ cast'[a].n_launch = cast[a].n_launch]_vars

\* cancelled during the status query of the 4th of 30 boot polls
C17_Witness ==
    /\ cast[1].cancelled /\ cast[1].pc = "cancelled"
    /\ cast[1].n_wake = 1 /\ cast[1].n_launch = 0
    /\ cast[1].n_poll = 3 /\ cast[1].n_sleep = 4

\* C18: when the metadata lookup returned not-found the operation is over
\* (a 404 for /search and /cast), no provider was invoked and no request was
\* sent to the device; and no provider is ever invoked without metadata.
C18_NotFoundStopsBeforeSearch ==
    /\ outcome = "not_found" =>
          /\ pc = "done"
          /\ metadata = None
          /\ returned = <<>> /\ api_idx = 1
          /\ all_streams = <<>> /\ search_results = <<>>
          /\ \A a \in Casts : DeviceRequests(a) = 0 /\ cast[a].pc = "idle"
          /\ path \in {"search", "cast"} => response = HTTPException(404)
    /\ returned # <<>> => metadata # None

\* a /cast over three providers whose metadata lookup found nothing
C18_Witness ==
    /\ path = "cast" /\ N = 3
    /\ outcome = "not_found" /\ pc = "done"
    /\ response = HTTPException(404)
    /\ returned = <<>>

\* the calls made so far to the provider that needs the catalog id, on
\* metadata that has none
CallsWithoutId ==
    { k \in 1..Len(returned) :
         returned[k].cls = "XPrimePrimenetAPI" /\ metadata[1].tmdb_id = None }

\* C19: XPrimePrimenetAPI called with metadata.tmdb_id absent sends no
\* upstream request (none is ever in flight) and returns zero candidates
\* with exactly one outcome, a failed one with streams_found 0.
C19_NoIdNoRequest ==
    /\ (pc = "upstream" /\ video_source_apis[api_idx] = "XPrimePrimenetAPI") =>
          metadata[1].tmdb_id # None
    /\ \A k \in CallsWithoutId :
          /\ returned[k].requests = 0
          /\ ~returned[k].result.raised
          /\ returned[k].result.sources = <<>>
          /\ Len(returned[k].result.search_results) = 1
          /\ ~returned[k].result.search_results[1].success
          /\ returned[k].result.search_results[1].streams_found = 0
          /\ returned[k].result.search_results[1].api_name = ApiName("XPrimePrimenetAPI")

\* on metadata without id, a Primenet call that sent nothing, after a call
\* of another provider that did send its request
C19_Witness ==
    /\ Len(returned) = 2
    /\ returned[1].cls = "XPrimeBackendAPI" /\ returned[1].requests = 1
    /\ 2 \in CallsWithoutId /\ returned[2].requests = 0

\* C20 (as claimed): the failed outcome of the provider whose catalog id is
\* absent has status MISSING_PRECONDITION.
C20_StatusMissingPrecondition ==
    \A k \in CallsWithoutId :
        returned[k].result.search_results[1].status = "MISSING_PRECONDITION"

\* C20 (amended): the failed outcome of the provider whose catalog id is
\* absent has status NO_TMDB_ID.
C20_StatusNoTmdbId ==
    \A k \in CallsWithoutId :
        /\ Len(returned[k].result.search_results) = 1
        /\ returned[k].result.search_results[1].status = "NO_TMDB_ID"

\* two Primenet calls on metadata without id, both answered NO_TMDB_ID
C20_Witness ==
    /\ CallsWithoutId = {1, 2}
    /\ returned[2].result.search_results[1].status = "NO_TMDB_ID"
    /\ ~returned[2].result.search_results[1].success

\* the upstream answers that are expected failure modes: transport failure
\* or timeout, an HTTP error status, a body that cannot be decoded, a
\* well-formed answer without streams, an answer with a malformed stream entry
ExpectedFailure(up) ==
    \/ up.kind \in {"transport", "status", "undecodable"}
    \/ /\ up.kind = "json"
       /\ \/ up.streams = <<>>
          \/ \E i \in 1..Len(up.streams) : ~up.streams[i].valid

\* the calls that were answered by the upstream
Answered == { k \in 1..Len(returned) : returned[k].requests = 1 }

\* C21: a provider call whose upstream answer is an expected failure mode
\* does not raise; it returns exactly one outcome, with success false and
\* streams_found 0.
C21_ExpectedFailureReturned ==
    \A k \in Answered :
        ExpectedFailure(returned[k].up) =>
            /\ ~returned[k].result.raised
            /\ Len(returned[k].result.search_results) = 1
            /\ ~returned[k].result.search_results[1].success
            /\ returned[k].result.search_results[1].streams_found = 0
            /\ returned[k].result.search_results[1].api_name = ApiName(returned[k].cls)

\* a transport failure of one provider, then a rate-limited other one
C21_Witness ==
    /\ Answered = {1, 2}
    /\ returned[1].cls = "XPrimeMainAPI" /\ returned[1].up.kind = "transport"
    /\ returned[2].cls = "XPrimePrimenetAPI"
    /\ returned[2].up = [kind |-> "status", code |-> 429]
    /\ ~returned[1].result.raised /\ ~returned[2].result.raised

\* the calls that came back with a result
Returned == { k \in 1..Len(returned) : ~returned[k].result.raised }

\* C22 (as claimed): the streams_found of a provider's outcome is the number
\* of candidates returned with it, and a failed outcome comes with no
\* candidate, also when the failure happened after some candidates were built.
C22_StreamsFoundIsCount ==
    \A k \in Returned :
        /\ Len(returned[k].result.search_results) = 1
        /\ returned[k].result.search_results[1].streams_found
              = Len(returned[k].result.sources)
        /\ ~returned[k].result.search_results[1].success =>
              returned[k].result.sources = <<>>

\* the calls the upstream answered with an HTTP error status
AnsweredWithStatus ==
    { k \in Answered : returned[k].up.kind = "status" }

\* the outcome carries the advice to wait between requests
RateLimitAdvice(search_result) ==
    /\ search_result.message = "Rate limited (HTTP 429). Try again in a few seconds"
    /\ search_result.error_details = "response, rate limiting note"

\* C23: when the upstream answers the error status c, the provider returns
\* one failed outcome whose status is HTTP_<c>; the outcome carries the
\* rate-limiting advice exactly when c = 429.
C23_HttpStatusNamed ==
    \A k \in AnsweredWithStatus :
        LET c == returned[k].up.code
            o == returned[k].result.search_results
        IN  /\ ~returned[k].result.raised
            /\ Len(o) = 1 /\ ~o[1].success
            /\ c = 404 => o[1].status = "HTTP_404"
            /\ c = 429 => o[1].status = "HTTP_429"
            /\ c = 500 => o[1].status = "HTTP_500"
            /\ RateLimitAdvice(o[1]) <=> c = 429

\* one provider answered 429, then another answered 404
C23_Witness ==
    /\ AnsweredWithStatus = {1, 2}
    /\ returned[1].cls = "XPrimeMainAPI" /\ returned[1].up.code = 429
    /\ returned[2].cls = "XPrimePrimenetAPI" /\ returned[2].up.code = 404
    /\ RateLimitAdvice(returned[1].result.search_results[1])
    /\ returned[2].result.search_results[1].status = "HTTP_404"

\* the provider calls of the run that timed out or failed in transport
TransportFailures ==
    { k \in 1..Len(returned) : returned[k].up.kind = "transport" }

\* C24: a provider call that times out or fails in transport comes back with
\* no candidate and one failed outcome of status REQUEST_ERROR under that
\* provider's name; the outcome list shows REQUEST_ERROR for that provider
\* and for no provider whose call did not fail so; and the loop goes on: the
\* providers are invoked one after another and the run does not leave the
\* loop before all N were invoked.
C24_TransportFailureIsolated ==
    /\ \A k \in TransportFailures :
          /\ ~returned[k].result.raised
          /\ returned[k].result.sources = <<>>
          /\ Len(returned[k].result.search_results) = 1
          /\ ~returned[k].result.search_results[1].success
          /\ returned[k].result.search_results[1].status = "REQUEST_ERROR"
          /\ returned[k].result.search_results[1].api_name = ApiName(returned[k].cls)
    /\ path \in OutcomePaths =>
          \A k \in 1..Len(returned) :
              /\ Len(search_results) >= k
              /\ search_results[k].status = "REQUEST_ERROR" <=> k \in TransportFailures
    /\ \A k \in 1..Len(returned) : returned[k].cls = video_source_apis[k]
    /\ TransportFailures # {} =>
          \/ pc = "searching" /\ api_idx = Len(returned) + 1
          \/ pc \in {"casting", "done"} /\ Len(returned) = N

\* a /cast over three providers: the second timed out, the third was then
\* invoked and returned a candidate
C24_Witness ==
    /\ path = "cast" /\ RunComplete /\ N = 3
    /\ TransportFailures = {2}
    /\ ~returned[3].result.raised /\ Len(returned[3].result.sources) = 1
    /\ search_results[2].status = "REQUEST_ERROR"
    /\ search_results[3].success

\* the calls answered with a well-formed response that holds no stream: an
\* empty or missing quality map, or no URL
AnsweredEmpty ==
    { k \in Answered : returned[k].up.kind = "json" /\ returned[k].up.streams = <<>> }

AnsweredWithMap ==
    { k \in Answered :
         /\ returned[k].cls # "XPrimePrimenetAPI"
         /\ returned[k].up.kind = "json"
         /\ returned[k].up.status = Some("ok")
         /\ returned[k].up.streams # <<>>
         /\ \A i \in 1..Len(returned[k].up.streams) : returned[k].up.streams[i].valid }

\* place of a label in the preference list 1080P, 720P, 480P, 360P; 0 for a
\* label that is not in it
PreferenceRank(q) ==
    CASE q = "1080P" -> 1 [] q = "720P" -> 2 [] q = "480P" -> 3 [] q = "360P" -> 4
      [] OTHER -> 0

\* candidate x of a result may come before candidate y: by preference rank,
\* preferred before the rest, the rest in the order of the map m
MayPrecede(x, y, m) ==
    LET rx == PreferenceRank(x.quality)
        ry == PreferenceRank(y.quality)
        at(q) == CHOOSE i \in 1..Len(m) : m[i].quality = q
    IN  \/ rx > 0 /\ ry > 0 /\ rx < ry
        \/ rx > 0 /\ ry = 0
        \/ rx = 0 /\ ry = 0 /\ at(x.quality) < at(y.quality)

\* C26: from a quality map the provider returns one candidate per entry,
\* each entry exactly once with its label and URL, the preferred labels first
\* in the order 1080P, 720P, 480P, 360P, then the other entries in the order
\* of the map; the outcome counts them.
C26_QualityOrder ==
    \A k \in AnsweredWithMap :
        LET m == returned[k].up.streams
            out == returned[k].result.sources
        IN  /\ ~returned[k].result.raised
            /\ Len(out) = Len(m)
            /\ \A i \in 1..Len(m) :
                  Cardinality({ j \in 1..Len(out) :
                                   out[j].quality = m[i].quality /\ out[j].url = m[i].url }) = 1
            /\ \A i, j \in 1..Len(out) : i < j => MayPrecede(out[i], out[j], m)
            /\ returned[k].result.search_results[1].success
            /\ returned[k].result.search_results[1].streams_found = Len(m)

\* the map CAM, 360P, 4K, 1080P came back as 1080P, 360P, CAM, 4K
C26_Witness ==
    /\ 1 \in AnsweredWithMap
    /\ Len(returned[1].up.streams) = 4
    /\ [i \in 1..4 |-> returned[1].up.streams[i].quality] = <<"CAM", "360P", "4K", "1080P">>
    /\ Len(returned[1].result.sources) = 4
    /\ [i \in 1..4 |-> returned[1].result.sources[i].quality]
          = <<"1080P", "360P", "CAM", "4K">>

\* C27 (as claimed): every candidate a provider returned carries the source
\* tag source_api, equal to the provider's display name (the api_name of its
\* outcome), and the tag can be read when the responses are built: no
\* response is an internal error.
C27_SourceTagCarried ==
    /\ \A k \in 1..Len(returned) :
          ~returned[k].result.raised =>
              \A i \in 1..Len(returned[k].result.sources) :
                  /\ HasAttr(returned[k].result.sources[i], "source_api")
                  /\ returned[k].result.sources[i]["source_api"]
                        = ApiName(returned[k].cls)
    /\ response # InternalServerError

\* C28: in the CLI workflow the stream handed to cast_to_roku never has a
\* URL that starts with "https://example-" or "http://example-", and when
\* every candidate has such a URL no cast is attempted: the workflow ends
\* without a request to the device.
PlaceholderUrl(url) ==
    \/ StartsWith(url, <<"h", "t", "t", "p", "s", ":", "/", "/",
                          "e", "x", "a", "m", "p", "l", "e", "-">>)
    \/ StartsWith(url, <<"h", "t", "t", "p", ":", "/", "/",
                          "e", "x", "a", "m", "p", "l", "e", "-">>)

OnlyPlaceholders(streams) ==
    /\ streams # <<>>
    /\ \A i \in 1..Len(streams) : PlaceholderUrl(streams[i].url)

C28_CliSkipsPlaceholders ==
    path = "cli" =>
        /\ cast[1].pc # "idle" =>
              /\ ~PlaceholderUrl(cast[1].stream[1].url)
              /\ selected_stream = cast[1].stream
        /\ (pc \in {"casting", "done"} /\ OnlyPlaceholders(all_streams)) =>
              /\ cast[1] = IdleCast
              /\ selected_stream = None
              /\ pc = "done" /\ outcome = "no_real_streams"

\* a CLI run whose aggregate holds a placeholder candidate and a real one, and
\* that handed a stream to cast_to_roku
C28_Witness ==
    /\ path = "cli" /\ cast[1].pc # "idle"
    /\ \E i \in 1..Len(all_streams) : PlaceholderUrl(all_streams[i].url)
    /\ Len(real_streams(all_streams)) < Len(all_streams)

\* the "nothing found" answer of /cast
NothingFound(resp) ==
    /\ resp.kind = "CastResponse"
    /\ ~resp.success
    /\ resp.message = "No video streams found for this movie"
    /\ resp.stream_info = None

\* C29: /cast answers a zero-candidate aggregate with the "nothing found"
\* result; that result is given only when every registered provider has been
\* called and no request went to the device, and the answer to a cast the
\* device made fail is never the "nothing found" result.
C29_NothingFoundDistinct ==
    path = "cast" =>
        /\ (RunComplete /\ pc = "done" /\ all_streams = <<>>) =>
              /\ NothingFound(response)
              /\ response.search_results = search_results
        /\ NothingFound(response) =>
              /\ RunComplete
              /\ Len(returned) = N
              /\ \A k \in 1..N : returned[k].cls = video_source_apis[k]
              /\ all_streams = <<>>
              /\ DeviceRequests(1) = 0
        /\ (pc = "done" /\ cast[1].result = Some(FALSE)) =>
              /\ DeviceRequests(1) > 0
              /\ response # NoResponse
              /\ ~NothingFound(response)

\* a /cast over three providers, each called once, answered "nothing found"
C29_Witness ==
    /\ path = "cast" /\ pc = "done"
    /\ N = 3 /\ Len(returned) = 3
    /\ NothingFound(response)
    /\ Len(response.search_results) = 3

\* the device-layer failure a finished attempt ran into, read off its
\* exchanges with the device
FailureKind(a) ==
    IF cast[a].n_launch > 0
    THEN IF launch_succeeded(cast[a].last.answer) THEN "NONE" ELSE "LAUNCH_FAILED"
    ELSE IF cast[a].last.call = "wake" THEN "POWER_ON_FAILED"
    ELSE "BOOT_TIMEOUT"

\* C30 (as claimed): what a failed cast attempt returns to its caller is an
\* outcome with success = false and a reason, and the reason names the
\* failure: POWER_ON_FAILED when the wake command was rejected, BOOT_TIMEOUT
\* when the device never became reachable, LAUNCH_FAILED when the launch was
\* rejected.
C30_FailureReasonReturned ==
    \A a \in Casts :
        (cast[a].pc = "done" /\ cast[a].result # None
            /\ FailureKind(a) # "NONE") =>
            /\ cast[a].result[1] \notin BOOLEAN
            /\ cast[a].result[1].success = FALSE
            /\ cast[a].result[1].reason = FailureKind(a)

\* C31: readiness state is per invocation. Whatever the earlier invocations
\* on the device ended in, an invocation begins with all its counters at
\* zero, makes exactly one initial status query before anything else, counts
\* its boot polls from zero, and gives up waiting only after its own 30
\* polls.
C31_ReadinessPerInvocation ==
    \A a \in Attempts :
        /\ cast[a].pc = "check" =>
              /\ cast[a].n_check = 0 /\ cast[a].n_wake = 0
              /\ cast[a].n_sleep = 0 /\ cast[a].n_poll = 0
              /\ cast[a].n_launch = 0
              /\ cast[a].attempt = 0 /\ ~cast[a].is_responsive
        /\ cast[a].pc \notin {"idle", "check"} => cast[a].n_check = 1
        /\ cast[a].pc \in {"sleep", "poll"} =>
              /\ cast[a].n_poll = cast[a].attempt
              /\ cast[a].n_poll < MaxWaitTime
        /\ (cast[a].pc = "done" /\ FailureKind(a) = "BOOT_TIMEOUT") =>
              /\ cast[a].n_poll = MaxWaitTime
              /\ cast[a].n_sleep = MaxWaitTime

\* the first invocation ended in a boot timeout, and the second, called
\* after it, is about to make the last of its own 30 polls
C31_Witness ==
    /\ cast[1].pc = "done" /\ FailureKind(1) = "BOOT_TIMEOUT"
    /\ cast[2].pc = "poll" /\ cast[2].n_check = 1
    /\ cast[2].n_poll = MaxWaitTime - 1

\* C37: invocations of cast_to_roku that overlap on one device share no
\* readiness state. Each sends at most one wake command, at most 30 boot
\* polls and at most one launch command, each went through its own status
\* query, wake and polls before its launch, and the result of each is
\* determined by the answers the device gave to that invocation.
C37_ConcurrentAttemptsIndependent ==
    \A a \in Attempts :
        /\ cast[a].n_check <= 1 /\ cast[a].n_wake <= 1
        /\ cast[a].n_poll <= MaxWaitTime /\ cast[a].n_launch <= 1
        /\ cast[a].n_wake = 1 => (cast[a].n_check = 1 /\ ~cast[a].is_responsive)
        /\ (cast[a].pc \in {"sleep", "poll"} \/ cast[a].n_poll > 0) =>
              cast[a].n_wake = 1
        /\ (cast[a].pc = "launch" \/ cast[a].n_launch = 1) =>
              \/ cast[a].is_responsive /\ cast[a].n_wake = 0 /\ cast[a].n_poll = 0
              \/ cast[a].n_wake = 1 /\ cast[a].n_poll >= 1
        /\ cast[a].pc = "done" =>
              /\ cast[a].result # None
              /\ cast[a].result[1] <=>
                    (cast[a].last.call = "launch" /\ cast[a].last.answer = 200)
              /\ ~cast[a].result[1] =>
                    \/ cast[a].last.call = "launch" /\ cast[a].last.answer # 200
                    \/ /\ cast[a].last.call = "wake"
                       /\ cast[a].last.answer \notin {200, 202}
                       /\ cast[a].n_poll = 0
                    \/ /\ cast[a].last.call = "status"
                       /\ cast[a].last.answer # 200
                       /\ cast[a].n_poll = MaxWaitTime

\* two invocations are in flight at once: one is waiting for the boot after
\* two failed polls while the other, woken and polled on its own, is at its
\* launch
C37_Witness ==
    /\ cast[1].pc = "sleep" /\ cast[1].n_wake = 1 /\ cast[1].n_poll = 2
    /\ cast[2].pc = "launch" /\ cast[2].n_wake = 1 /\ cast[2].n_poll = 1

\* the summary the run gives: the fields of the /search response, the
\* printed summary of the CLI workflow
SummaryOfRun == IF path = "search" THEN response ELSE CliSummary

\* C32: in the summary of a finished /search or CLI run, "providers queried"
\* is the number of registered providers, "providers succeeded" is the number
\* of outcome entries with success = true, and succeeded <= queried,
\* whatever the providers did.
C32_SummaryCounts ==
    ((path = "search" /\ pc = "done" /\ outcome = "searched")
        \/ (path = "cli" /\ RunComplete)) =>
        /\ SummaryOfRun.total_apis_searched = N
        /\ SummaryOfRun.successful_searches
              = Cardinality({k \in 1..Len(search_results) :
                                search_results[k].success = TRUE})
        /\ SummaryOfRun.successful_searches <= SummaryOfRun.total_apis_searched
        /\ SummaryOfRun.successful_searches <= Len(search_results)

\* a CLI run over three providers of which one raised and two succeeded with
\* two candidates each
C32_Witness ==
    /\ path = "cli" /\ RunComplete /\ N = 3
    /\ \E k \in 1..3 : returned[k].result.raised
    /\ CliSummary.successful_searches = 2
    /\ Len(all_streams) = 4

\* a title or an IMDb ID that is absent or empty
Missing(opt) == opt \in {None, Some("")}

\* the VideoRequest objects the state holds
RequestsHeld ==
    {video_req[k] : k \in 1..Len(video_req)}
        \cup {all_streams[k].from_request : k \in 1..Len(all_streams)}
        \cup {selected_stream[k].from_request : k \in 1..Len(selected_stream)}

\* C33: a VideoRequest exists only with a title or an IMDb ID present (not
\* absent, not empty): the validator refuses exactly the requests with
\* neither, and /search, /cast and /cast-background answer a request with
\* neither by an error (400) at once, with no VideoRequest built, no
\* metadata lookup, no provider call and no cast started.
C33_TitleOrIdRequired ==
    /\ [](/\ \A rq \in RequestChoices :
                VideoRequestValid(rq.title, rq.imdb_id)
                    <=> ~(Missing(rq.title) /\ Missing(rq.imdb_id))
          /\ \A vr \in RequestsHeld : ~(Missing(vr.title) /\ Missing(vr.imdb_id))
          /\ (pc = "done" /\ outcome = "rejected") =>
                /\ metadata = None /\ returned = <<>>
                /\ \A a \in Casts : cast[a] = IdleCast)
    /\ [][\A rq \in RequestChoices, d \in DestinationChoices, x \in IndexChoices :
            ((Missing(rq.title) /\ Missing(rq.imdb_id))
                /\ (\/ ReceiveSearch(rq.title, rq.imdb_id)
                    \/ ReceiveCast(rq.title, rq.imdb_id, d, x)
                    \/ ReceiveCastBackground(rq.title, rq.imdb_id, d, x)))
            => /\ pc' = "done" /\ outcome' = "rejected"
               /\ response' = HTTPException(400)
               /\ video_req' = None /\ metadata' = None]_vars

\* /cast-background has answered 400 and nothing else has happened
C33_Witness ==
    /\ path = "cast_background" /\ pc = "done" /\ outcome = "rejected"
    /\ response = HTTPException(400)
    /\ video_req = None /\ metadata = None /\ returned = <<>>

\* the known extensions, as sets of character sequences
KnownExtensions == {video_extensions[k] : k \in 1..Len(video_extensions)}

\* url is `front ++ "." ++ ext ++ "?" ++ query` with no "?" in front
ExtensionBeforeQuery(url, ext) ==
    \E i \in 1..Len(url) :
        /\ url[i] = "?"
        /\ \A j \in 1..(i - 1) : url[j] # "?"
        /\ i - 1 >= Len(ext) + 1
        /\ SubSeq(url, i - Len(ext) - 1, i - 1) = <<".">> \o ext

\* C35: media-type inference strips the query string before it looks at the
\* suffix: for a URL whose path ends in "." and a known extension and is
\* followed by "?" and any query, the inferred media type is that extension.
C35_QueryStripped ==
    \A k \in 1..Len(returned) :
        \A ext \in KnownExtensions :
            ExtensionBeforeQuery(returned[k].url, ext) =>
                returned[k].media_type = ext

\* the media type of a URL that ends in ".mkv?token=abc" has been inferred
C35_Witness ==
    /\ Len(returned) = 1
    /\ EndsWith(returned[1].url,
                <<".", "m", "k", "v", "?", "t", "o", "k", "e", "n", "=", "a", "b", "c">>)
    /\ returned[1].media_type = <<"m", "k", "v">>

\* no known extension matches the path of url (query stripped, lower-cased)
NoKnownExtension(url) ==
    \A ext \in KnownExtensions :
        ~EndsWith(Lower(BeforeQuery(url)), <<".">> \o ext)

\* the path of url (query stripped) has a non-empty suffix after its last "."
HasSuffix(url) ==
    /\ Positions(BeforeQuery(url), ".") # {}
    /\ AfterLastDot(BeforeQuery(url)) # <<>>

\* C36 (as claimed): when no known extension matches, a URL path with some
\* suffix after its last "." gets that suffix as its media type (letter case
\* is not held against the claim: the suffix is compared lower-cased), and
\* only a path with no suffix at all gets the default "mp4".
C36_AnySuffixVerbatim ==
    \A k \in 1..Len(returned) :
        NoKnownExtension(returned[k].url) =>
            returned[k].media_type
                = IF HasSuffix(returned[k].url)
                  THEN Lower(AfterLastDot(BeforeQuery(returned[k].url)))
                  ELSE MP4

\* C36 (amended): when no known extension matches, the media type is the
\* lower-cased suffix after the last "." of the path if that suffix is one to
\* four characters long and alphanumeric; in every other case (no ".", an
\* empty suffix, a longer one, one with another character) it is the default
\* "mp4".
C36_ShortAlnumSuffix ==
    \A k \in 1..Len(returned) :
        NoKnownExtension(returned[k].url) =>
            LET u == returned[k].url
                suffix == Lower(AfterLastDot(BeforeQuery(u)))
            IN  returned[k].media_type
                    = IF /\ HasSuffix(u)
                         /\ Len(suffix) <= 4
                         /\ \A i \in 1..Len(suffix) : suffix[i] \in AlnumChars
                      THEN suffix
                      ELSE MP4

\* the media type of a URL whose path ends in the five-character suffix
\* ".webmx" has been inferred as the default
C36_Witness ==
    /\ Len(returned) = 1
    /\ EndsWith(BeforeQuery(returned[1].url), <<".", "w", "e", "b", "m", "x">>)
    /\ returned[1].media_type = MP4

\* the second run has selected a stream or has ended
SecondRunOver == response.kind = "FirstRun" /\ pc \in {"casting", "done"}

C38_ResponseReportsCastResult ==
    (path = "cast" /\ pc = "done" /\ cast[1].pc = "done") =>
        /\ response.kind = "CastResponse"
        /\ response.success = cast[1].result[1]
        /\ response.success =>
              /\ response.stream_info # None
              /\ response.stream_info[1].url = selected_stream[1].url
        /\ cast[1].n_launch > 0 => outcome # "error"

\* C39 (as claimed): in /cast and in the background cast, the stream that is
\* selected and handed to cast_to_roku never has a URL that starts with
\* "https://example-" or "http://example-".
C39_HttpSkipsPlaceholders ==
    path \in {"cast", "cast_background"} =>
        /\ selected_stream # None => ~PlaceholderUrl(selected_stream[1].url)
        /\ cast[1].pc # "idle" => ~PlaceholderUrl(cast[1].stream[1].url)

\* destination_tv is neither the name nor the IP address of a configured
\* device
UnknownDevice(destination_tv) ==
    \A k \in 1..Len(roku_devices) :
        /\ roku_devices[k].name # destination_tv
        /\ roku_devices[k].ip_address # destination_tv

\* C40: /cast and /cast-background answer a request whose destination_tv
\* matches no configured device's name or IP address with 404 at once: no
\* metadata lookup, no provider call and no device request is made, and
\* /cast-background starts no background task (its answer is the 404, not the
\* "started" answer, and nothing runs afterwards).
C40_UnknownDeviceRejected ==
    /\ [][\A rq \in RequestChoices, d \in DestinationChoices, x \in IndexChoices :
            (/\ ~(Missing(rq.title) /\ Missing(rq.imdb_id))
             /\ UnknownDevice(d)
             /\ \/ ReceiveCast(rq.title, rq.imdb_id, d, x)
                \/ ReceiveCastBackground(rq.title, rq.imdb_id, d, x))
            => /\ pc' = "done" /\ outcome' = "rejected"
               /\ response' = HTTPException(404)
               /\ target_device' = None /\ video_req' = None]_vars
    /\ []((path \in {"cast", "cast_background"} /\ outcome = "rejected") =>
            /\ pc = "done"
            /\ response.kind = "HTTPException"
            /\ target_device = None
            /\ metadata = None /\ returned = <<>> /\ all_streams = <<>>
            /\ \A a \in Casts : cast[a] = IdleCast)
    /\ [][outcome = "rejected" => UNCHANGED vars]_vars

\* /cast-background has answered 404 for an unknown device, and nothing else
\* has happened
C40_Witness ==
    /\ path = "cast_background" /\ pc = "done" /\ outcome = "rejected"
    /\ response = HTTPException(404)
    /\ target_device = None /\ metadata = None /\ returned = <<>>

====
